---------------------------- MODULE Spec2Model ----------------------------
(***************************************************************************)
(* A model of yt-most-replayed: the identifier gate (extractVideoId), the  *)
(* transport with its retry loop (fetchVideoPage), the single-item         *)
(* pipeline (getMostReplayed), the parser functions it calls, and the      *)
(* batch orchestrator (getMostReplayedBatch).                              *)
(*                                                                         *)
(* Strings the code inspects character by character (identifiers, URLs,    *)
(* digit strings) are tuples of one-character strings.  Every JavaScript   *)
(* value is a record with a tag field t.                                   *)
(***************************************************************************)
EXTENDS Integers, Sequences, FiniteSets, TLC

\* ------------------------------------------------------------------ bounds
MaxInputs == 2
MaxConcurrency == 2
MaxRetries == 2
MaxSingleRetries == 3
MaxPieces == 4
MaxMutations == 3
MaxMarkers == 3

\* --------------------------------------------------------------- constants
DEFAULT_TIMEOUT == 10000
DEFAULT_RETRIES == 1
DEFAULT_RETRY_DELAY == 1000
DEFAULT_CONCURRENCY == 5
VIDEO_ID_LENGTH == 11
\* A retryDelay option other than the default.
SHORT_DELAY == 250

\* ------------------------------------------------------- JavaScript values
JsUndefined == [t |-> "undefined"]
JsNull == [t |-> "null"]
JsString(s) == [t |-> "string", s |-> s]
JsNumber(n) == [t |-> "number", nan |-> FALSE, n |-> n]
JsNaN == [t |-> "number", nan |-> TRUE, n |-> 0]
JsArray(e) == [t |-> "array", e |-> e]
JsObject(props) == [t |-> "object", props |-> props]

\* new Error(message) with the given name; code is "" unless it is a
\* MostReplayedError.
\* message is the fixed text, detail the interpolated part (a tuple of
\* strings).
JsError(name, code, message, detail) ==
  [t |-> "error", name |-> name, code |-> code, message |-> message, detail |-> detail]

MostReplayedError(code, message, detail) ==
  JsError("MostReplayedError", code, message, detail)

IsMostReplayedError(e) == e.t = "error" /\ e.name = "MostReplayedError"

INVALID_VIDEO_ID == "INVALID_VIDEO_ID"
FETCH_FAILED == "FETCH_FAILED"
PARSE_FAILED == "PARSE_FAILED"
NO_DATA_AVAILABLE == "NO_DATA_AVAILABLE"
TIMEOUT == "TIMEOUT"

\* The two ways a call ends.
Return(v) == [kind |-> "return", value |-> v]
Throw(e) == [kind |-> "throw", value |-> e]

\* ------------------------------------------------------------ identifiers
Lower == {"a","b","c","d","e","f","g","h","i","j","k","l","m",
          "n","o","p","q","r","s","t","u","v","w","x","y","z"}
Upper == {"A","B","C","D","E","F","G","H","I","J","K","L","M",
          "N","O","P","Q","R","S","T","U","V","W","X","Y","Z"}
Digit == {"0","1","2","3","4","5","6","7","8","9"}
IdChar == Lower \cup Upper \cup Digit \cup {"_", "-"}
WhiteSpace == {" ", "\t", "\n"}

\* /^[a-zA-Z0-9_-]{11}$/.test(videoId)
isValidVideoId(videoId) ==
  /\ Len(videoId) = VIDEO_ID_LENGTH
  /\ \A k \in 1..Len(videoId) : videoId[k] \in IdChar

\* String.prototype.trim
Trim(s) ==
  LET keep == {k \in 1..Len(s) : s[k] \notin WhiteSpace}
  IN  IF keep = {} THEN <<>>
      ELSE LET lo == CHOOSE k \in keep : \A j \in keep : k <= j
               hi == CHOOSE k \in keep : \A j \in keep : k >= j
           IN  SubSeq(s, lo, hi)

\* The alternatives of the URL pattern, in the order of the expression.
UrlPrefixes ==
  << <<"y","o","u","t","u","b","e",".","c","o","m","/","w","a","t","c","h","?","v","=">>,
     <<"y","o","u","t","u","b","e",".","c","o","m","/","e","m","b","e","d","/">>,
     <<"y","o","u","t","u",".","b","e","/">>,
     <<"y","o","u","t","u","b","e",".","c","o","m","/","v","/">>,
     <<"y","o","u","t","u","b","e",".","c","o","m","/","s","h","o","r","t","s","/">> >>

\* A variant of PatternMatchesAt that takes any 11 characters after the
\* alternative.
PatternMatchesAtAnyChar(s, p, a) ==
  LET pre == UrlPrefixes[a]
      q == p + Len(pre)
  IN  /\ q + VIDEO_ID_LENGTH - 1 <= Len(s)
      /\ SubSeq(s, p, q - 1) = pre

\* Whether alternative a of the pattern, followed by 11 identifier
\* characters, matches s at position p.
PatternMatchesAt(s, p, a) ==
  LET pre == UrlPrefixes[a]
      q == p + Len(pre)
  IN  /\ q + VIDEO_ID_LENGTH - 1 <= Len(s)
      /\ SubSeq(s, p, q - 1) = pre
      /\ \A k \in q..(q + VIDEO_ID_LENGTH - 1) : s[k] \in IdChar

\* trimmed.match(pattern)?.[1]: the capture of the leftmost match, the
\* first alternative that matches there; <<>> when nothing matches.
MatchUrl(s) ==
  LET hits == {p \in 1..Len(s) : \E a \in 1..Len(UrlPrefixes) : PatternMatchesAt(s, p, a)}
  IN  IF hits = {} THEN <<>>
      ELSE LET p == CHOOSE x \in hits : \A y \in hits : x <= y
               as == {a \in 1..Len(UrlPrefixes) : PatternMatchesAt(s, p, a)}
               a == CHOOSE x \in as : \A y \in as : x <= y
               q == p + Len(UrlPrefixes[a])
           IN  SubSeq(s, q, q + VIDEO_ID_LENGTH - 1)

\* A variant of extractVideoId that takes whatever is left after the trim.
extractVideoIdLenient(input) == Return(Trim(input))

extractVideoId(input) ==
  LET trimmed == Trim(input)
  IN  IF isValidVideoId(trimmed) THEN Return(trimmed)
      ELSE IF MatchUrl(trimmed) # <<>> THEN Return(MatchUrl(trimmed))
      ELSE Throw(MostReplayedError(INVALID_VIDEO_ID, "Invalid YouTube video ID or URL: ", input))


\* ------------------------------------------------- JavaScript primitives
\* ToBoolean
Truthy(v) ==
  CASE v.t \in {"undefined", "null"} -> FALSE
    [] v.t = "boolean" -> v.b
    [] v.t = "number" -> ~v.nan /\ v.n # 0
    [] v.t = "string" -> v.s # <<>>
    [] OTHER -> TRUE

\* v.k on a value that is neither null nor undefined.
Get(v, k) ==
  IF v.t = "object" /\ k \in DOMAIN v.props THEN v.props[k] ELSE JsUndefined

\* v?.k
OptGet(v, k) == IF v.t \in {"undefined", "null"} THEN JsUndefined ELSE Get(v, k)

TypeError(message) == JsError("TypeError", "", message, <<>>)

DigitValue(c) ==
  CASE c = "0" -> 0 [] c = "1" -> 1 [] c = "2" -> 2 [] c = "3" -> 3 [] c = "4" -> 4
    [] c = "5" -> 5 [] c = "6" -> 6 [] c = "7" -> 7 [] c = "8" -> 8 [] c = "9" -> 9

RECURSIVE DigitsValue(_)
DigitsValue(ds) ==
  IF ds = <<>> THEN 0
  ELSE 10 * DigitsValue(SubSeq(ds, 1, Len(ds) - 1)) + DigitValue(ds[Len(ds)])

RECURSIVE IntToChars(_)
IntToChars(n) ==
  IF n < 0 THEN <<"-">> \o IntToChars(-n)
  ELSE IF n < 10 THEN <<CHOOSE c \in Digit : DigitValue(c) = n>>
  ELSE IntToChars(n \div 10) \o <<CHOOSE c \in Digit : DigitValue(c) = n % 10>>

\* ToString of the argument of parseInt.
RECURSIVE ToChars(_)
ToChars(v) ==
  CASE v.t = "string" -> v.s
    [] v.t = "number" -> IF v.nan THEN <<"N","a","N">> ELSE IntToChars(v.n)
    [] v.t = "null" -> <<"n","u","l","l">>
    [] v.t = "undefined" -> <<"u","n","d","e","f","i","n","e","d">>
    [] v.t = "boolean" -> IF v.b THEN <<"t","r","u","e">> ELSE <<"f","a","l","s","e">>
    [] v.t = "array" ->
         IF v.e = <<>> THEN <<>>
         ELSE (IF v.e[1].t \in {"null", "undefined"} THEN <<>> ELSE ToChars(v.e[1]))
              \o (IF Len(v.e) > 1 THEN <<",">> ELSE <<>>)
    [] OTHER -> <<"[","o","b","j","e","c","t"," ","O","b","j","e","c","t","]">>

\* parseInt(v, 10): leading white space, an optional sign, then the longest
\* prefix of decimal digits; NaN when that prefix is empty.
ParseInt(v) ==
  LET s == ToChars(v)
      ink == {k \in 1..Len(s) : s[k] \notin WhiteSpace}
      b == IF ink = {} THEN Len(s) + 1 ELSE CHOOSE k \in ink : \A j \in ink : k <= j
      signed == b <= Len(s) /\ s[b] \in {"-", "+"}
      d == IF signed THEN b + 1 ELSE b
      stop == {k \in d..Len(s) : s[k] \notin Digit}
      e == IF stop = {} THEN Len(s) ELSE (CHOOSE k \in stop : \A j \in stop : k <= j) - 1
  IN  IF e < d THEN JsNaN
      ELSE JsNumber((IF signed /\ s[b] = "-" THEN -1 ELSE 1) * DigitsValue(SubSeq(s, d, e)))

\* a - b of two numbers
Minus(a, b) == IF a.nan \/ b.nan THEN JsNaN ELSE JsNumber(a.n - b.n)

\* a + b of two whole numbers (exact: they are far below 2^53)
Plus(a, b) == IF a.nan \/ b.nan THEN JsNaN ELSE JsNumber(a.n + b.n)

\* A JavaScript number is a binary floating-point number with a significand of
\* 53 bits.  The model keeps the format and its rounding with a significand of
\* SignificandBits bits, so that the values stay small.  A fraction is held as
\* a whole number of units, the unit being a negative power of two.
SignificandBits == 4

\* The distance between neighbouring numbers of the format at num / den, found
\* from s upwards.
RECURSIVE Spacing(_, _, _)
Spacing(num, den, s) ==
  IF num < den * s * 2^SignificandBits THEN s ELSE Spacing(num, den, 2 * s)

\* The neighbour of a quotient to round to: the whole part lo, or lo + 1 when
\* the rest is more than half a unit, or is half a unit and lo is odd.
Nearest(lo, twice, unit) ==
  IF twice > unit \/ (twice = unit /\ lo % 2 = 1) THEN lo + 1 ELSE lo

\* num / den rounded to a whole number of spacings s.
RoundWith(num, den, s) ==
  Nearest(num \div (den * s), 2 * (num % (den * s)), den * s) * s

\* The number of the format nearest to num / den (num >= 0), the one with the
\* even significand when two are equally near.
RoundToNearest(num, den) == RoundWith(num, den, Spacing(num, den, 1))

\* a + b of two fractions
PlusRounded(a, b) == IF a.nan \/ b.nan THEN JsNaN ELSE JsNumber(RoundToNearest(a.n + b.n, 1))

\* a / n of a fraction and a count
DividedBy(a, n) == IF a.nan THEN JsNaN ELSE JsNumber(RoundToNearest(a.n, n))

\* Array.prototype.sort(compare): stable; an element moves before another
\* only when compare says it is smaller (a NaN comparison counts as 0).
RECURSIVE InsertSorted(_, _, _)
InsertSorted(sorted, x, key) ==
  IF sorted = <<>> THEN <<x>>
  ELSE LET last == sorted[Len(sorted)]
           c == Minus(x[key], last[key])
       IN  IF ~c.nan /\ c.n < 0
           THEN InsertSorted(SubSeq(sorted, 1, Len(sorted) - 1), x, key) \o <<last>>
           ELSE sorted \o <<x>>

RECURSIVE SortBy(_, _)
SortBy(seq, key) ==
  IF seq = <<>> THEN <<>>
  ELSE InsertSorted(SortBy(SubSeq(seq, 1, Len(seq) - 1), key), seq[Len(seq)], key)

\* ----------------------------------------------------------------- parser
\* A page is a tuple of text pieces.  The opening marker and the terminator
\* are one piece each; the text between them is handed to JSON.parse.
MARKER == "var ytInitialData = "
TERMINATOR == ";</script>"

\* A variant of IndexOf that searches from the start of the text.
IndexOfFromStart(html, piece, from) ==
  LET at == {k \in 1..Len(html) : html[k] = piece}
  IN  IF at = {} THEN 0 ELSE CHOOSE k \in at : \A j \in at : k <= j

\* html.indexOf(piece, from): the first position >= from, 0 when there is none.
IndexOf(html, piece, from) ==
  LET at == {k \in from..Len(html) : html[k] = piece}
  IN  IF at = {} THEN 0 ELSE CHOOSE k \in at : \A j \in at : k <= j

\* A variant of extractInitialDataJson that takes the rest of the text when
\* there is no terminator.
extractInitialDataJsonToEnd(html) ==
  LET startIndex == IndexOf(html, MARKER, 1)
  IN  IF startIndex = 0
      THEN Throw(MostReplayedError(PARSE_FAILED, "Could not find ytInitialData in page HTML", <<>>))
      ELSE LET jsonStart == startIndex + 1
               endIndex == IndexOf(html, TERMINATOR, jsonStart)
           IN  IF endIndex = 0
               THEN Return(SubSeq(html, jsonStart, Len(html)))
               ELSE Return(SubSeq(html, jsonStart, endIndex - 1))

extractInitialDataJson(html) ==
  LET startIndex == IndexOf(html, MARKER, 1)
  IN  IF startIndex = 0
      THEN Throw(MostReplayedError(PARSE_FAILED, "Could not find ytInitialData in page HTML", <<>>))
      ELSE LET jsonStart == startIndex + 1
               endIndex == IndexOf(html, TERMINATOR, jsonStart)
           IN  IF endIndex = 0
               THEN Throw(MostReplayedError(PARSE_FAILED, "Could not find end of ytInitialData JSON", <<>>))
               ELSE Return(SubSeq(html, jsonStart, endIndex - 1))

\* Raw markers and decorations as JSON.parse builds them.
RawMarker(start, duration, intensity) ==
  JsObject([startMillis |-> JsString(start), durationMillis |-> JsString(duration),
            intensityScoreNormalized |-> JsNumber(intensity)])

RawMarkerNoStart(duration, intensity) ==
  JsObject([durationMillis |-> JsString(duration), intensityScoreNormalized |-> JsNumber(intensity)])

RawDecoration(start, end) ==
  JsObject([visibleTimeRangeStartMillis |-> JsString(start),
            visibleTimeRangeEndMillis |-> JsString(end)])

MarkersList(markers, decorations) ==
  JsObject([markers |-> JsArray(markers),
            markersDecoration |-> JsObject([timedMarkerDecorations |-> JsArray(decorations)])])

MutationOf(markersList) ==
  JsObject([payload |-> JsObject([macroMarkersListEntity |-> JsObject([markersList |-> markersList])])])

InitialData(mutations) ==
  JsObject([frameworkUpdates |-> JsObject([entityBatchUpdate |-> JsObject([mutations |-> mutations])])])

\* The JSON texts of the model, by name, and the tree JSON.parse builds from
\* each.  Intensities are fractions, in units.
JsonDocuments ==
  [ json_null |-> JsNull,
    json_empty_object |-> JsObject([k \in {} |-> JsNull]),
    json_no_mutations |-> InitialData(JsArray(<<>>)),
    json_null_mutation |-> InitialData(JsArray(<<JsNull>>)),
    json_no_start |-> InitialData(JsArray(<<
        MutationOf(MarkersList(<<RawMarkerNoStart(<<"5","0","0","0">>, 48)>>, <<>>))>>)),
    json_empty_list |-> InitialData(JsArray(<<
        MutationOf(MarkersList(<<>>, <<RawDecoration(<<"0">>, <<"5","0","0","0">>)>>))>>)),
    json_no_decorations |-> InitialData(JsArray(<<
        MutationOf(MarkersList(
          << RawMarker(<<"0">>, <<"5","0","0","0">>, 48),
             RawMarker(<<"5","0","0","0">>, <<"5","0","0","0">>, 80) >>,
          << JsObject([visibleTimeRangeStartMillis |-> JsString(<<"0">>)]) >>))>>)),
    json_heatmap |-> InitialData(JsArray(<<
        MutationOf(JsObject([markers |-> JsArray(<<>>)])),
        MutationOf(MarkersList(
          << RawMarker(<<"5","0","0","0">>, <<"5","0","0","0">>, 80),
             RawMarker(<<"0">>, <<"5","0","0","0">>, 48),
             RawMarkerNoStart(<<"2","0","0","0">>, 40) >>,
          << RawDecoration(<<"0">>, <<"5","0","0","0">>) >>))>>)) ]

\* JSON.parse(jsonString): the text is well formed iff it is one piece naming a
\* document.
parseInitialData(jsonString) ==
  IF Len(jsonString) = 1 /\ jsonString[1] \in DOMAIN JsonDocuments
  THEN Return(JsonDocuments[jsonString[1]])
  ELSE Throw(MostReplayedError(PARSE_FAILED, "Failed to parse ytInitialData JSON", <<>>))

\* The loop over the mutations, from position k.
RECURSIVE FindFrom(_, _)
FindFrom(mutations, k) ==
  IF k > Len(mutations) THEN Return(JsNull)
  ELSE IF mutations[k].t \in {"undefined", "null"}
  THEN Throw(TypeError("Cannot read properties of null (reading 'payload')"))
  ELSE LET markersList ==
             OptGet(OptGet(Get(mutations[k], "payload"), "macroMarkersListEntity"), "markersList")
       IN  IF Truthy(OptGet(markersList, "markersDecoration"))
           THEN Return(markersList)
           ELSE FindFrom(mutations, k + 1)

findMarkersListData(data) ==
  IF data.t \in {"undefined", "null"}
  THEN Throw(TypeError("Cannot read properties of null (reading 'frameworkUpdates')"))
  ELSE LET mutations ==
             OptGet(OptGet(Get(data, "frameworkUpdates"), "entityBatchUpdate"), "mutations")
       IN  IF ~Truthy(mutations) \/ mutations.t # "array" THEN Return(JsNull)
           ELSE FindFrom(mutations.e, 1)

\* a ?? b
Coalesce(a, b) == IF a.t \in {"undefined", "null"} THEN b ELSE a

\* A variant of transformMarkers that keeps the entries without a start.
transformMarkersUnfiltered(rawMarkers) ==
  LET mapped == [k \in 1..Len(rawMarkers.e) |->
                   [startMillis |-> ParseInt(Get(rawMarkers.e[k], "startMillis")),
                    durationMillis |->
                      IF Truthy(Get(rawMarkers.e[k], "durationMillis"))
                      THEN ParseInt(Get(rawMarkers.e[k], "durationMillis")) ELSE JsNumber(0),
                    intensityScoreNormalized |->
                      Coalesce(Get(rawMarkers.e[k], "intensityScoreNormalized"), JsNumber(0))]]
  IN  Return(SortBy(mapped, "startMillis"))

transformMarkers(rawMarkers) ==
  IF rawMarkers.t # "array" THEN Throw(TypeError("rawMarkers.filter is not a function"))
  ELSE IF \E k \in 1..Len(rawMarkers.e) : rawMarkers.e[k].t \in {"undefined", "null"}
  THEN Throw(TypeError("Cannot read properties of null (reading 'startMillis')"))
  ELSE LET kept == SelectSeq(rawMarkers.e, LAMBDA m : Get(m, "startMillis") # JsUndefined)
           mapped == [k \in 1..Len(kept) |->
                        [startMillis |-> ParseInt(Get(kept[k], "startMillis")),
                         durationMillis |->
                           IF Truthy(Get(kept[k], "durationMillis"))
                           THEN ParseInt(Get(kept[k], "durationMillis")) ELSE JsNumber(0),
                         intensityScoreNormalized |->
                           Coalesce(Get(kept[k], "intensityScoreNormalized"), JsNumber(0))]]
       IN  Return(SortBy(mapped, "startMillis"))

transformTimedMarkerDecorations(rawDecorations) ==
  IF rawDecorations.t # "array" THEN Throw(TypeError("rawDecorations.filter is not a function"))
  ELSE IF \E k \in 1..Len(rawDecorations.e) : rawDecorations.e[k].t \in {"undefined", "null"}
  THEN Throw(TypeError("Cannot read properties of null (reading 'visibleTimeRangeStartMillis')"))
  ELSE LET kept == SelectSeq(rawDecorations.e, LAMBDA d :
                     /\ Get(d, "visibleTimeRangeStartMillis") # JsUndefined
                     /\ Get(d, "visibleTimeRangeEndMillis") # JsUndefined)
           mapped == [k \in 1..Len(kept) |->
                        [visibleTimeRangeStartMillis |->
                           ParseInt(Get(kept[k], "visibleTimeRangeStartMillis")),
                         visibleTimeRangeEndMillis |->
                           ParseInt(Get(kept[k], "visibleTimeRangeEndMillis"))]]
       IN  Return(SortBy(mapped, "visibleTimeRangeStartMillis"))

\* A variant of Greater that also holds of equal numbers.
GreaterOrEqual(a, b) == ~a.nan /\ ~b.nan /\ a.n >= b.n

\* a > b of two numbers (false when either is NaN)
Greater(a, b) == ~a.nan /\ ~b.nan /\ a.n > b.n

\* markers.reduce((peak, current) => ...) over the first k markers
RECURSIVE PeakOf(_, _)
PeakOf(markers, k) ==
  IF k = 1 THEN markers[1]
  ELSE LET peak == PeakOf(markers, k - 1)
       IN  IF Greater(markers[k].intensityScoreNormalized, peak.intensityScoreNormalized)
           THEN markers[k] ELSE peak

findPeakSegment(markers) ==
  IF Len(markers) = 0 THEN JsNull ELSE PeakOf(markers, Len(markers))

RECURSIVE SumIntensity(_, _)
SumIntensity(markers, k) ==
  IF k = 0 THEN JsNumber(0)
  ELSE PlusRounded(SumIntensity(markers, k - 1), markers[k].intensityScoreNormalized)

calculateAverageIntensity(markers) ==
  IF Len(markers) = 0 THEN JsNumber(0)
  ELSE DividedBy(SumIntensity(markers, Len(markers)), Len(markers))

\* A variant of estimateVideoDuration that takes the duration of the first raw
\* entry.
estimateVideoDurationFirstRaw(markers, rawMarkers) ==
  IF Len(markers) = 0 THEN JsNumber(0)
  ELSE Plus(markers[Len(markers)].startMillis,
            IF Len(rawMarkers) > 0 /\ Truthy(Get(rawMarkers[1], "durationMillis"))
            THEN ParseInt(Get(rawMarkers[1], "durationMillis")) ELSE JsNumber(0))

\* A variant of estimateVideoDuration that adds the last marker's own
\* duration.
estimateVideoDurationOwn(markers, rawMarkers) ==
  IF Len(markers) = 0 THEN JsNumber(0)
  ELSE Plus(markers[Len(markers)].startMillis, markers[Len(markers)].durationMillis)

estimateVideoDuration(markers, rawMarkers) ==
  IF Len(markers) = 0 THEN JsNumber(0)
  ELSE LET lastRawMarker ==
             IF Len(rawMarkers) = 0 THEN JsUndefined ELSE rawMarkers[Len(rawMarkers)]
           segmentDuration ==
             IF Truthy(OptGet(lastRawMarker, "durationMillis"))
             THEN ParseInt(Get(lastRawMarker, "durationMillis")) ELSE JsNumber(0)
       IN  Plus(markers[Len(markers)].startMillis, segmentDuration)

\* ------------------------------------------------------------------ utils
DEFAULT_COUNT == 5

\* Array.prototype.sort((a, b) => b.intensityScoreNormalized -
\* a.intensityScoreNormalized): stable; an element moves before another only
\* when the comparison of the two is negative.
RECURSIVE InsertByIntensity(_, _)
InsertByIntensity(sorted, x) ==
  IF sorted = <<>> THEN <<x>>
  ELSE IF Greater(JsNumber(0), Minus(sorted[Len(sorted)].intensityScoreNormalized,
                                     x.intensityScoreNormalized))
       THEN InsertByIntensity(SubSeq(sorted, 1, Len(sorted) - 1), x) \o <<sorted[Len(sorted)]>>
       ELSE sorted \o <<x>>

RECURSIVE SortByIntensity(_)
SortByIntensity(seq) ==
  IF seq = <<>> THEN <<>>
  ELSE InsertByIntensity(SortByIntensity(SubSeq(seq, 1, Len(seq) - 1)), seq[Len(seq)])

\* seq.slice(0, end) for a whole number end: a negative end counts from the
\* end of seq.
Slice(seq, end) ==
  SubSeq(seq, 1, IF end < 0 THEN (IF Len(seq) + end < 0 THEN 0 ELSE Len(seq) + end)
                 ELSE (IF end > Len(seq) THEN Len(seq) ELSE end))

\* getTopSegments(data, count): what it returns, and data after the call (the
\* sort works on the copy [...data.markers]).
getTopSegments(data, count) ==
  [returned |-> Slice(SortByIntensity(data.markers),
                      (IF count = JsUndefined THEN JsNumber(DEFAULT_COUNT) ELSE count).n),
   data |-> data]

\* -------------------------------------------------------------- transport
\* A Response of the transport: ok is status in 200..299.
Response(status, statusText, body) ==
  [t |-> "response", ok |-> status \in 200..299, status |-> status,
   statusText |-> statusText, body |-> body]

\* A variant of isRetryableStatus that retries every error status.
isRetryableStatusAnyError(status) == status >= 400

isRetryableStatus(status) == status >= 500 \/ status = 429

HttpError(response) ==
  MostReplayedError(FETCH_FAILED, "HTTP ", <<ToString(response.status), response.statusText>>)

TimeoutError(timeout) ==
  MostReplayedError(TIMEOUT, "Request timed out after ", <<ToString(timeout), "ms">>)

\* What the loop body of fetchVideoPage does with the response of attempt
\* `attempt`: read its body, wait and try again, or fail.
OnResponse(response, attempt, maxRetries) ==
  IF ~response.ok
  THEN IF isRetryableStatus(response.status) /\ attempt < maxRetries
       THEN [next |-> "retry", error |-> HttpError(response)]
       ELSE [next |-> "throw", error |-> HttpError(response)]
  ELSE [next |-> "read", error |-> JsUndefined]

\* A variant of OnCatch without the test for the abort.
OnCatchNoAbortTest(error, attempt, maxRetries, timeout) ==
  IF IsMostReplayedError(error) THEN [next |-> "throw", error |-> error]
  ELSE LET fetchError ==
             MostReplayedError(FETCH_FAILED, "Failed to fetch video page: ",
                               IF error.t = "error" THEN <<error.message>> ELSE ToChars(error))
       IN  IF attempt < maxRetries
           THEN [next |-> "retry", error |-> fetchError]
           ELSE [next |-> "throw", error |-> fetchError]

\* A variant of OnCatch that reports whatever ends the last attempt as a
\* timeout.
OnCatchAllTimeouts(error, attempt, maxRetries, timeout) ==
  IF IsMostReplayedError(error) THEN [next |-> "throw", error |-> error]
  ELSE IF attempt < maxRetries /\ ~(error.t = "error" /\ error.name = "AbortError")
  THEN [next |-> "retry",
        error |-> MostReplayedError(FETCH_FAILED, "Failed to fetch video page: ",
                                    IF error.t = "error" THEN <<error.message>>
                                    ELSE ToChars(error))]
  ELSE [next |-> "throw", error |-> TimeoutError(timeout)]

\* The catch block of fetchVideoPage: what it does with something thrown in
\* the try block (a rejection of the transport call or of the body read).
OnCatch(error, attempt, maxRetries, timeout) ==
  IF IsMostReplayedError(error) THEN [next |-> "throw", error |-> error]
  ELSE IF error.t = "error" /\ error.name = "AbortError"
  THEN [next |-> "throw", error |-> TimeoutError(timeout)]
  ELSE LET fetchError ==
             MostReplayedError(FETCH_FAILED, "Failed to fetch video page: ",
                               IF error.t = "error" THEN <<error.message>> ELSE ToChars(error))
       IN  IF attempt < maxRetries
           THEN [next |-> "retry", error |-> fetchError]
           ELSE [next |-> "throw", error |-> fetchError]

\* ----------------------------------------------------- single-item pipeline
\* getMostReplayed from the page on, a step for each of its statements; what
\* a step is handed is what the statements before it produced.

\* The return statement: the result built of the transformed sequences.
BuildResult(rawMarkers, markers, timedMarkerDecorations) ==
  IF timedMarkerDecorations.kind = "throw" THEN timedMarkerDecorations
  ELSE Return([t |-> "data",
               markers |-> JsArray(markers),
               timedMarkerDecorations |->
                 IF Len(timedMarkerDecorations.value) > 0
                 THEN JsArray(timedMarkerDecorations.value) ELSE JsNull,
               videoDurationMillis |-> estimateVideoDuration(markers, rawMarkers.e),
               peakSegment |-> findPeakSegment(markers),
               averageIntensity |-> calculateAverageIntensity(markers)])

\* The decorations: transformed when the located list has some, none
\* otherwise.
DecorationsOf(rawDecorations) ==
  IF Truthy(rawDecorations) THEN transformTimedMarkerDecorations(rawDecorations)
  ELSE Return(<<>>)

\* A variant of FromMarkers without the test for an empty transformed
\* sequence.
FromMarkersNoEmptyTest(markersListData, markers) ==
  IF markers.kind = "throw" THEN markers
  ELSE BuildResult(Get(markersListData, "markers"), markers.value,
                   DecorationsOf(OptGet(Get(markersListData, "markersDecoration"),
                                        "timedMarkerDecorations")))

\* From the transformed markers on: null when there is none.
FromMarkers(markersListData, markers) ==
  IF markers.kind = "throw" THEN markers
  ELSE IF Len(markers.value) = 0 THEN Return(JsNull)
  ELSE BuildResult(Get(markersListData, "markers"), markers.value,
                   DecorationsOf(OptGet(Get(markersListData, "markersDecoration"),
                                        "timedMarkerDecorations")))

\* From the located list on: null when it has no markers or an empty array
\* of them.
FromList(found) ==
  IF found.kind = "throw" THEN found
  ELSE IF \/ ~Truthy(OptGet(found.value, "markers"))
          \/ /\ OptGet(found.value, "markers").t = "array"
             /\ Len(OptGet(found.value, "markers").e) = 0
  THEN Return(JsNull)
  ELSE FromMarkers(found.value, transformMarkers(Get(found.value, "markers")))

FromData(initialData) ==
  IF initialData.kind = "throw" THEN initialData
  ELSE FromList(findMarkersListData(initialData.value))

FromJson(jsonString) ==
  IF jsonString.kind = "throw" THEN jsonString
  ELSE FromData(parseInitialData(jsonString.value))

ParsePage(html) == FromJson(extractInitialDataJson(html))

\* ------------------------------------------------------------------ state
VARIABLES
  api,          \* "batch": getMostReplayedBatch is called; "single": getMostReplayed
  traced,       \* whether the history of the transport calls is kept
  inputs,       \* videoIdsOrUrls (the one argument videoIdOrUrl when api = "single")
  options,      \* the options argument
  bpc,          \* where the called function is: "start", "launch", "await", "done"
  videoIds,     \* the validation records of getMostReplayedBatch
  results,      \* the results array; JsUndefined is a slot never assigned
  windowStart,  \* the loop variable i of the window loop (0-based)
  task,         \* per input index, the getMostReplayed call made for it
  outcome       \* how the called function ended: Return(..), Throw(..)

vars == <<api, traced, inputs, options, bpc, videoIds, results, windowStart, task, outcome>>

Items == 1..Len(inputs)

maxRetriesOf(opts) == Coalesce(opts.retries, JsNumber(DEFAULT_RETRIES)).n
retryDelayOf(opts) == Coalesce(opts.retryDelay, JsNumber(DEFAULT_RETRY_DELAY)).n
timeoutOf(opts) == Coalesce(opts.timeout, JsNumber(DEFAULT_TIMEOUT)).n
concurrencyOf(opts) == Coalesce(opts.concurrency, JsNumber(DEFAULT_CONCURRENCY)).n

\* A getMostReplayed call that has not been made.  calls is the history of
\* its transport calls: per call, what the call yielded (JsUndefined while it
\* is outstanding), what the read of its body yielded, and whether the timer of
\* the attempt fired while the attempt was in progress.
IdleTask ==
  [pc |-> "idle", videoId |-> <<>>, attempt |-> 0, armed |-> {}, aborted |-> FALSE,
   lastError |-> JsUndefined, response |-> JsUndefined, sleepMs |-> 0,
   calls |-> <<>>, result |-> JsUndefined]

\* The call ends with r; the finally block clears the timer of the attempt,
\* and the locals of fetchVideoPage are gone.
FinishTask(t, r) ==
  [t EXCEPT !.pc = "settled", !.armed = @ \ {t.attempt}, !.response = JsUndefined,
            !.lastError = JsUndefined, !.aborted = FALSE, !.result = r]

\* One more pass of the loop of fetchVideoPage: a timeout controller is
\* created and the transport is called.
IssueCall(t) ==
  [t EXCEPT !.pc = "fetching", !.attempt = @ + 1, !.armed = @ \cup {t.attempt + 1},
            !.aborted = FALSE, !.response = JsUndefined, !.sleepMs = 0,
            !.calls = Append(@, [call |-> JsUndefined, body |-> JsUndefined,
                                    fired |-> FALSE])]

\* A variant of LoopTest whose bound is off by one.
LoopTestOffByOne(t, opts) ==
  IF t.attempt <= maxRetriesOf(opts) THEN IssueCall(t)
  ELSE FinishTask(t, Throw(Coalesce(t.lastError,
                                    MostReplayedError(FETCH_FAILED, "Request failed", <<>>))))

\* The loop test of fetchVideoPage with the attempt counter at t.attempt + 1.
LoopTest(t, opts) ==
  IF t.attempt + 1 <= maxRetriesOf(opts) THEN IssueCall(t)
  ELSE FinishTask(t, Throw(Coalesce(t.lastError,
                                    MostReplayedError(FETCH_FAILED, "Request failed", <<>>))))

\* getMostReplayed up to its first await.
StartPipeline(videoIdOrUrl, opts) ==
  LET videoId == extractVideoId(videoIdOrUrl)
  IN  IF videoId.kind = "throw" THEN FinishTask(IdleTask, videoId)
      ELSE LoopTest([IdleTask EXCEPT !.videoId = videoId.value], opts)

\* A variant of AfterStep that leaves the timer of the attempt armed when it
\* goes on to the backoff delay.
AfterStepTimerKept(t, step, opts) ==
  CASE step.next = "retry" ->
         [t EXCEPT !.pc = "sleeping", !.lastError = step.error,
                   !.response = JsUndefined,
                   !.sleepMs = retryDelayOf(opts) * t.attempt]
    [] step.next = "throw" -> FinishTask(t, Throw(step.error))
    [] step.next = "read" -> [t EXCEPT !.pc = "reading"]

\* A variant of AfterStep that throws the first failure it has kept.
AfterStepFirstError(t, step, opts) ==
  CASE step.next = "retry" ->
         [t EXCEPT !.pc = "sleeping", !.lastError = Coalesce(t.lastError, step.error),
                   !.armed = @ \ {t.attempt}, !.response = JsUndefined,
                   !.sleepMs = retryDelayOf(opts) * t.attempt]
    [] step.next = "throw" -> FinishTask(t, Throw(Coalesce(t.lastError, step.error)))
    [] step.next = "read" -> [t EXCEPT !.pc = "reading"]

\* A variant of AfterStep whose delay does not grow.
AfterStepConstantDelay(t, step, opts) ==
  CASE step.next = "retry" ->
         [t EXCEPT !.pc = "sleeping", !.lastError = step.error,
                   !.armed = @ \ {t.attempt}, !.response = JsUndefined,
                   !.sleepMs = retryDelayOf(opts)]
    [] step.next = "throw" -> FinishTask(t, Throw(step.error))
    [] step.next = "read" -> [t EXCEPT !.pc = "reading"]

\* The rest of a pass of the loop once OnResponse or OnCatch has decided.
AfterStep(t, step, opts) ==
  CASE step.next = "retry" ->
         [t EXCEPT !.pc = "sleeping", !.lastError = step.error,
                   !.armed = @ \ {t.attempt}, !.response = JsUndefined,
                   !.sleepMs = retryDelayOf(opts) * t.attempt]
    [] step.next = "throw" -> FinishTask(t, Throw(step.error))
    [] step.next = "read" -> [t EXCEPT !.pc = "reading"]

\* The history with the yield of the outstanding call, or of its body read.
\* Without the history only the number of calls of each item is kept.
Yielded(t, field, v) ==
  IF traced THEN [t EXCEPT !.calls[Len(t.calls)] = [@ EXCEPT ![field] = v]] ELSE t

\* ------------------------------------------------------------------ pools
VALID_ID == <<"a","b","c","1","2","3","X","Y","Z","_","-">>
PADDED_ID == <<" ","d","Q","w","4","w","9","W","g","X","c","Q","\n">>
WATCH_URL ==
  <<"h","t","t","p","s",":","/","/","y","o","u","t","u",".","b","e","/",
    "d","Q","w","4","w","9","W","g","X","c","Q","?","t","=","1">>
BOGUS == <<"b","o","g","u","s">>

\* The inputs a call is tried on.
InputPool ==
  CASE api = "single" -> {PADDED_ID, BOGUS}
    [] api = "batch" /\ ~traced -> {VALID_ID, WATCH_URL, BOGUS}
    [] OTHER -> {WATCH_URL, BOGUS}

PageOf(json) == <<"<html><script>", MARKER, json, TERMINATOR, "</html>">>

\* What the transport can answer.  The batch draws from fewer answers than
\* the single call, and from fewer still when it keeps the history.
ResponsePool ==
  CASE api = "single" ->
         { Response(200, "OK", PageOf("json_heatmap")),
           Response(200, "OK", PageOf("json_no_decorations")),
           Response(200, "OK", PageOf("json_no_start")),
           Response(200, "OK", PageOf("json_empty_list")),
           Response(200, "OK", PageOf("json_no_mutations")),
           Response(200, "OK", PageOf("json_null")),
           Response(200, "OK", PageOf("{")),
           Response(200, "OK", <<"<html>", TERMINATOR>>),
           Response(404, "Not Found", <<"Not Found">>),
           Response(429, "Too Many Requests", <<>>),
           Response(500, "Internal Server Error", <<"Server Error">>) }
    [] api = "batch" /\ ~traced ->
         { Response(200, "OK", PageOf("json_heatmap")),
           Response(200, "OK", PageOf("json_no_mutations")),
           Response(200, "OK", PageOf("json_null")),
           Response(200, "OK", <<"<html>", TERMINATOR>>),
           Response(404, "Not Found", <<"Not Found">>),
           Response(500, "Internal Server Error", <<"Server Error">>) }
    [] OTHER ->
         { Response(200, "OK", PageOf("json_heatmap")),
           Response(200, "OK", PageOf("json_null_mutation")),
           Response(404, "Not Found", <<"Not Found">>),
           Response(500, "Internal Server Error", <<"Server Error">>) }

\* What a transport call or a body read can reject with of its own accord:
\* faults, and for a transport handed in by the caller also an error that is
\* named AbortError though no signal was aborted.
RejectionPool ==
  IF api = "single"
  THEN { JsError("Error", "", "Network error", <<>>),
         JsError("AbortError", "", "Aborted", <<>>) }
  ELSE { JsError("Error", "", "Network error", <<>>) }

\* What the transport rejects with when the signal has been aborted.
AbortError == JsError("AbortError", "", "This operation was aborted", <<>>)

RECURSIVE SeqsUpTo(_, _)
SeqsUpTo(S, n) ==
  IF n = 0 THEN {<<>>}
  ELSE LET shorter == SeqsUpTo(S, n - 1)
       IN  shorter \cup {Append(q, x) : q \in {r \in shorter : Len(r) = n - 1}, x \in S}

\* The options of a call: retries and concurrency are given or left to
\* their defaults.
OptionsPool ==
  [retries : (IF api = "single" THEN {JsUndefined} ELSE {})
             \cup {JsNumber(n) : n \in 0..(IF api = "single" THEN MaxSingleRetries
                                             ELSE MaxRetries)},
   concurrency : IF api = "single" THEN {JsUndefined}
                 ELSE (IF traced THEN {} ELSE {JsUndefined})
                      \cup {JsNumber(n) : n \in 0..MaxConcurrency},
   retryDelay : IF api = "single" THEN {JsUndefined, JsNumber(SHORT_DELAY)} ELSE {JsUndefined},
   timeout : {JsUndefined}]

\* ------------------------------------------------------------------- Init
InitCommon ==
  /\ bpc = "start"
  /\ videoIds = <<>>
  /\ results = <<>>
  /\ windowStart = 0
  /\ task = [k \in Items |-> IdleTask]
  /\ outcome = JsUndefined

Init ==
  /\ api = "batch"
  /\ traced = FALSE
  /\ inputs \in SeqsUpTo(InputPool, MaxInputs)
  /\ options \in OptionsPool
  /\ InitCommon

InitTraced ==
  /\ api = "batch"
  /\ traced = TRUE
  /\ inputs \in SeqsUpTo(InputPool, MaxInputs)
  /\ options \in OptionsPool
  /\ InitCommon

InitSingle ==
  /\ api = "single"
  /\ traced = TRUE
  /\ inputs \in {<<x>> : x \in InputPool}
  /\ options \in OptionsPool
  /\ InitCommon

\* -------------------------------------------------- the pipeline's awaits
\* The transport call of item k resolves with a response.
TransportResolves ==
  \E k \in Items :
  /\ task[k].pc = "fetching"
  /\ ~task[k].aborted
  /\ \E response \in ResponsePool :
       task' = [task EXCEPT ![k] =
                  AfterStep([Yielded(task[k], "call", response) EXCEPT !.response = response],
                            OnResponse(response, task[k].attempt, maxRetriesOf(options)),
                            options)]
  /\ UNCHANGED <<api, traced, inputs, options, bpc, videoIds, results, windowStart, outcome>>

\* The transport call of item k rejects: with the abort once the signal is
\* aborted, with a fault of the transport otherwise.
TransportRejects ==
  \E k \in Items :
  /\ task[k].pc = "fetching"
  /\ \E error \in (IF task[k].aborted THEN {AbortError} ELSE RejectionPool) :
       task' = [task EXCEPT ![k] =
                  AfterStep(Yielded(task[k], "call", error),
                            OnCatch(error, task[k].attempt, maxRetriesOf(options),
                                    timeoutOf(options)),
                            options)]
  /\ UNCHANGED <<api, traced, inputs, options, bpc, videoIds, results, windowStart, outcome>>

\* A variant of BodyArrives that goes on to another attempt, while attempts
\* remain, when the rest of getMostReplayed fails.
BodyArrivesRetried ==
  \E k \in Items :
  /\ task[k].pc = "reading"
  /\ ~task[k].aborted
  /\ task' = [task EXCEPT ![k] =
                IF /\ ParsePage(task[k].response.body).kind = "throw"
                   /\ task[k].attempt < maxRetriesOf(options)
                THEN AfterStep(Yielded(task[k], "body", JsString(task[k].response.body)),
                               [next |-> "retry",
                                error |-> ParsePage(task[k].response.body).value],
                               options)
                ELSE FinishTask(Yielded(task[k], "body", JsString(task[k].response.body)),
                                ParsePage(task[k].response.body))]
  /\ UNCHANGED <<api, traced, inputs, options, bpc, videoIds, results, windowStart, outcome>>

\* A variant of BodyArrives that surfaces the failure of an earlier attempt.
BodyArrivesStale ==
  \E k \in Items :
  /\ task[k].pc = "reading"
  /\ ~task[k].aborted
  /\ task' = [task EXCEPT ![k] =
                FinishTask(Yielded(task[k], "body", JsString(task[k].response.body)),
                           IF task[k].lastError # JsUndefined
                           THEN Throw(task[k].lastError)
                           ELSE ParsePage(task[k].response.body))]
  /\ UNCHANGED <<api, traced, inputs, options, bpc, videoIds, results, windowStart, outcome>>

\* response.text() of item k resolves; the rest of getMostReplayed runs.
BodyArrives ==
  \E k \in Items :
  /\ task[k].pc = "reading"
  /\ ~task[k].aborted
  /\ task' = [task EXCEPT ![k] =
                FinishTask(Yielded(task[k], "body", JsString(task[k].response.body)),
                           ParsePage(task[k].response.body))]
  /\ UNCHANGED <<api, traced, inputs, options, bpc, videoIds, results, windowStart, outcome>>

\* A variant of BodyFails that goes on to the backoff delay whatever the read
\* was rejected with.
BodyFailsRetried ==
  \E k \in Items :
  /\ task[k].pc = "reading"
  /\ \E error \in (IF task[k].aborted THEN {AbortError} ELSE RejectionPool) :
       task' = [task EXCEPT ![k] =
                  AfterStep(Yielded(task[k], "body", error),
                            [next |-> "retry",
                             error |-> OnCatch(error, task[k].attempt, maxRetriesOf(options),
                                               timeoutOf(options)).error],
                            options)]
  /\ UNCHANGED <<api, traced, inputs, options, bpc, videoIds, results, windowStart, outcome>>

\* response.text() of item k rejects.
BodyFails ==
  \E k \in Items :
  /\ task[k].pc = "reading"
  /\ \E error \in (IF task[k].aborted THEN {AbortError} ELSE RejectionPool) :
       task' = [task EXCEPT ![k] =
                  AfterStep(Yielded(task[k], "body", error),
                            OnCatch(error, task[k].attempt, maxRetriesOf(options),
                                    timeoutOf(options)),
                            options)]
  /\ UNCHANGED <<api, traced, inputs, options, bpc, videoIds, results, windowStart, outcome>>

\* A timer set by createTimeoutController fires: controller.abort().
TimeoutFires ==
  \E k \in Items :
  /\ \E a \in task[k].armed :
       task' = [task EXCEPT ![k] =
                  IF a = task[k].attempt
                  THEN Yielded([task[k] EXCEPT !.armed = @ \ {a}, !.aborted = TRUE],
                               "fired", TRUE)
                  ELSE [task[k] EXCEPT !.armed = @ \ {a}]]
  /\ UNCHANGED <<api, traced, inputs, options, bpc, videoIds, results, windowStart, outcome>>

\* sleep(retryDelay * attempt) of item k resolves: continue.
BackoffElapses ==
  \E k \in Items :
  /\ task[k].pc = "sleeping"
  /\ task' = [task EXCEPT ![k] = LoopTest(task[k], options)]
  /\ UNCHANGED <<api, traced, inputs, options, bpc, videoIds, results, windowStart, outcome>>

\* ------------------------------------------------------ getMostReplayedBatch
\* The validation record of one input (the callback of videoIdsOrUrls.map).
ValidateInput(input) ==
  LET r == extractVideoId(input)
  IN  IF r.kind = "return"
      THEN [original |-> input, videoId |-> JsString(r.value), error |-> JsUndefined]
      ELSE [original |-> input, videoId |-> JsNull,
            error |-> IF IsMostReplayedError(r.value) THEN r.value ELSE JsUndefined]

\* A variant of validItems that keeps, of the inputs with the same video id,
\* the first only.
validItemsDistinct ==
  SelectSeq([k \in 1..Len(videoIds) |-> k],
            LAMBDA k : /\ videoIds[k].videoId # JsNull
                       /\ \A j \in 1..(k - 1) : videoIds[j].videoId # videoIds[k].videoId)

\* The indices of the inputs whose validation record has a video id, in
\* input order (validItems[n].index, 1-based).
validItems == SelectSeq([k \in 1..Len(videoIds) |-> k], LAMBDA k : videoIds[k].videoId # JsNull)

\* A variant of WindowAt that takes every item that is left.
WindowAtRest(from, concurrency) == SubSeq(validItems, from + 1, Len(validItems))

\* validItems.slice(i, i + concurrency) for the loop variable at `from`.
WindowAt(from, concurrency) ==
  SubSeq(validItems, from + 1,
         IF from + concurrency < Len(validItems) THEN from + concurrency ELSE Len(validItems))

\* A variant of BatchPromise whose catch block hands on what was thrown as
\* the data too.
BatchPromiseDataKept(k, videoId, r) ==
  IF r.kind = "return"
  THEN Return([index |-> k, videoId |-> videoId, data |-> r.value, error |-> JsUndefined])
  ELSE Return([index |-> k, videoId |-> videoId, data |-> r.value,
               error |-> IF IsMostReplayedError(r.value) THEN r.value ELSE JsUndefined])

\* A variant of BatchPromise that lets the failure of the call through.
BatchPromiseRethrow(k, videoId, r) ==
  IF r.kind = "return"
  THEN Return([index |-> k, videoId |-> videoId, data |-> r.value, error |-> JsUndefined])
  ELSE Throw(r.value)

\* How the async callback of batch.map ends for an item whose
\* getMostReplayed call ended with r.
BatchPromise(k, videoId, r) ==
  IF r.kind = "return"
  THEN Return([index |-> k, videoId |-> videoId, data |-> r.value, error |-> JsUndefined])
  ELSE Return([index |-> k, videoId |-> videoId, data |-> JsNull,
               error |-> IF IsMostReplayedError(r.value) THEN r.value ELSE JsUndefined])

\* A variant of WriteResults that writes the n-th result of the window at
\* the n-th index after the start of the window.
WriteResultsInOrder(res, batchResults) ==
  [k \in DOMAIN res |->
     IF k > windowStart /\ k - windowStart <= Len(batchResults)
     THEN LET result == batchResults[k - windowStart]
          IN  [videoId |-> result.videoId, data |-> result.data, error |-> result.error]
     ELSE res[k]]

\* A variant of WriteResults in which one failure of the window is shared by
\* every result of the window.
WriteResultsSharedError(res, batchResults) ==
  LET failed == {n \in 1..Len(batchResults) : batchResults[n].error # JsUndefined}
  IN  [k \in DOMAIN res |->
         IF \E n \in 1..Len(batchResults) : batchResults[n].index = k
         THEN LET result == batchResults[CHOOSE n \in 1..Len(batchResults) :
                                           batchResults[n].index = k]
              IN  IF failed = {}
                  THEN [videoId |-> result.videoId, data |-> result.data,
                        error |-> result.error]
                  ELSE [videoId |-> result.videoId, data |-> JsNull,
                        error |-> batchResults[CHOOSE n \in failed : TRUE].error]
         ELSE res[k]]

\* The loop over batchResults: each is written at its own index.
RECURSIVE WriteResults(_, _)
WriteResults(res, batchResults) ==
  IF batchResults = <<>> THEN res
  ELSE LET result == Head(batchResults)
       IN  WriteResults([res EXCEPT ![result.index] =
                           [videoId |-> result.videoId, data |-> result.data,
                            error |-> result.error]],
                        Tail(batchResults))

\* The synchronous head of getMostReplayedBatch: every input is validated,
\* the results array is made, the slots of the invalid inputs are filled.
Validate ==
  /\ api = "batch"
  /\ bpc = "start"
  /\ videoIds' = [k \in Items |-> ValidateInput(inputs[k])]
  /\ results' = [k \in Items |->
                   LET item == ValidateInput(inputs[k])
                   IN  IF Truthy(item.error)
                       THEN [videoId |-> JsString(item.original), data |-> JsNull,
                             error |-> item.error]
                       ELSE JsUndefined]
  /\ windowStart' = 0
  /\ bpc' = "launch"
  /\ UNCHANGED <<api, traced, inputs, options, task, outcome>>

\* The items of the window being awaited, as a set.
Window == {WindowAt(windowStart, concurrencyOf(options))[n] :
             n \in 1..Len(WindowAt(windowStart, concurrencyOf(options)))}

\* The head of the window loop: the loop ends and the function returns, or
\* the getMostReplayed calls of the next window are made.
LaunchWindow ==
  /\ api = "batch"
  /\ bpc = "launch"
  /\ IF windowStart < Len(validItems)
     THEN /\ task' = [k \in Items |->
                        IF k \in Window THEN StartPipeline(videoIds[k].videoId.s, options)
                        ELSE task[k]]
          /\ bpc' = "await"
          /\ outcome' = outcome
     ELSE /\ bpc' = "done"
          /\ outcome' = Return(results)
          /\ task' = task
  /\ UNCHANGED <<api, traced, inputs, options, videoIds, results, windowStart>>

\* The promise of the window's item k, once its getMostReplayed call ended.
WindowPromise(k) == BatchPromise(k, videoIds[k].videoId, task[k].result)

\* A variant of WindowSettles that does not wait for the window: the results
\* of the items that have ended are written and the loop goes on.
WindowSettlesUnawaited ==
  /\ api = "batch"
  /\ bpc = "await"
  /\ results' = WriteResults(results,
                             [n \in 1..Len(SelectSeq(WindowAt(windowStart, concurrencyOf(options)),
                                                     LAMBDA k : task[k].pc = "settled")) |->
                                WindowPromise(SelectSeq(WindowAt(windowStart, concurrencyOf(options)),
                                                        LAMBDA k : task[k].pc = "settled")[n]).value])
  /\ windowStart' = windowStart + concurrencyOf(options)
  /\ bpc' = "launch"
  /\ UNCHANGED <<api, traced, inputs, options, videoIds, task, outcome>>

\* Promise.all(batchPromises) settles: it rejects as soon as one promise
\* has rejected and the function rejects with it; it resolves once all have
\* resolved, the results are written and the loop goes on.
WindowSettles ==
  /\ api = "batch"
  /\ bpc = "await"
  /\ LET settled == {k \in Window : task[k].pc = "settled"}
         rejected == {k \in settled : WindowPromise(k).kind = "throw"}
         window == WindowAt(windowStart, concurrencyOf(options))
     IN  IF rejected # {}
         THEN /\ \E k \in rejected : outcome' = Throw(WindowPromise(k).value)
              /\ bpc' = "done"
              /\ UNCHANGED <<results, windowStart>>
         ELSE /\ settled = Window
              /\ results' = WriteResults(results,
                                         [n \in 1..Len(window) |-> WindowPromise(window[n]).value])
              /\ windowStart' = windowStart + concurrencyOf(options)
              /\ bpc' = "launch"
              /\ outcome' = outcome
  /\ UNCHANGED <<api, traced, inputs, options, videoIds, task>>

\* ------------------------------------------------------------ getMostReplayed
\* getMostReplayed(videoIdOrUrl, options) is called.
CallSingle ==
  /\ api = "single"
  /\ bpc = "start"
  /\ task' = [k \in Items |-> StartPipeline(inputs[k], options)]
  /\ bpc' = "await"
  /\ UNCHANGED <<api, traced, inputs, options, videoIds, results, windowStart, outcome>>

\* The promise of getMostReplayed settles.
SingleSettles ==
  /\ api = "single"
  /\ bpc = "await"
  /\ task[1].pc = "settled"
  /\ outcome' = task[1].result
  /\ bpc' = "done"
  /\ UNCHANGED <<api, traced, inputs, options, videoIds, results, windowStart, task>>

\* ------------------------------------------------------------------- Next
PipelineStep ==
  \/ TransportResolves
  \/ TransportRejects
  \/ BodyArrives
  \/ BodyFails
  \/ TimeoutFires
  \/ BackoffElapses

Next ==
  \/ Validate
  \/ LaunchWindow
  \/ WindowSettles
  \/ PipelineStep

NextSingle ==
  \/ CallSingle
  \/ SingleSettles
  \/ PipelineStep

Spec == Init /\ [][Next]_vars

SpecTraced == InitTraced /\ [][Next]_vars

\* The batch call under the scheduling of the event loop: a synchronous stretch
\* of getMostReplayedBatch that can run does run, and every transport call,
\* every body read and every backoff delay that is outstanding comes to an
\* end.  The inputs are an identifier and a string that is refused.
InitLive ==
  /\ api = "batch"
  /\ traced = FALSE
  /\ inputs \in SeqsUpTo({VALID_ID, BOGUS}, MaxInputs)
  /\ options \in OptionsPool
  /\ InitCommon

SpecLive ==
  /\ InitLive
  /\ [][Next]_vars
  /\ WF_vars(Validate)
  /\ WF_vars(LaunchWindow)
  /\ WF_vars(WindowSettles)
  /\ WF_vars(TransportRejects \/ TransportResolves)
  /\ WF_vars(BodyFails \/ BodyArrives)
  /\ WF_vars(BackoffElapses)

SpecSingle == InitSingle /\ [][NextSingle]_vars

\* ------------------------------------------------------ the parser alone
\* The functions of the parser called on their own: api names the function,
\* inputs holds its arguments, outcome what it ended with.
HtmlPool == SeqsUpTo({MARKER, TERMINATOR, "json_heatmap", "{"}, MaxPieces)

\* The entries of a mutations array: null, objects that lack one of the keys
\* on the way to the markers list, lists without a markersDecoration or with
\* a null one, and two lists that qualify.
MutationPool ==
  { JsNull,
    JsObject([k \in {} |-> JsNull]),
    JsObject([payload |-> JsObject([k \in {} |-> JsNull])]),
    JsObject([payload |-> JsObject([macroMarkersListEntity |-> JsObject([k \in {} |-> JsNull])])]),
    MutationOf(JsObject([markers |-> JsArray(<<>>)])),
    MutationOf(JsObject([markers |-> JsArray(<<>>), markersDecoration |-> JsNull])),
    MutationOf(MarkersList(<<RawMarker(<<"0">>, <<"5","0","0","0">>, 48)>>, <<>>)),
    MutationOf(MarkersList(<<>>, <<RawDecoration(<<"0">>, <<"5","0","0","0">>)>>)) }

\* The trees JSON.parse can hand to findMarkersListData.
TreePool ==
  { JsNull,
    JsObject([k \in {} |-> JsNull]),
    InitialData(JsNull),
    InitialData(JsString(<<"x">>)) }
  \cup {InitialData(JsArray(ms)) : ms \in SeqsUpTo(MutationPool, MaxMutations)}

\* The entries of a raw markers array: every field is optional, a start or
\* a duration is any string (digits, a sign, no digit at all, empty), an
\* intensity a fraction.  Two entries start together and two are equally
\* intense.
RawMarkerPool ==
  { RawMarker(<<"0">>, <<"5","0","0","0">>, 48),
    RawMarker(<<"5","0","0","0">>, <<"5","0","0","0">>, 80),
    RawMarker(<<"5","0","0","0">>, <<"2","0","0","0">>, 56),
    RawMarkerNoStart(<<"2","0","0","0">>, 40),
    JsObject([startMillis |-> JsString(<<"7","0","0","0">>)]),
    RawMarker(<<"9","0","0","0">>, <<>>, 56),
    JsObject([startMillis |-> JsString(<<"a","b","c">>),
              durationMillis |-> JsString(<<"-","1">>)]) }

RawMarkerSeqs == SeqsUpTo(RawMarkerPool, MaxMarkers)

\* The entries of a raw decorations array, likewise.
RawDecorationPool ==
  { RawDecoration(<<"0">>, <<"5","0","0","0">>),
    RawDecoration(<<"5","0","0","0">>, <<"9","0","0","0">>),
    RawDecoration(<<"5","0","0","0">>, <<"7","0","0","0">>),
    JsObject([visibleTimeRangeStartMillis |-> JsString(<<"0">>)]),
    JsObject([visibleTimeRangeEndMillis |-> JsString(<<"5","0","0","0">>)]),
    RawDecoration(<<"a","b","c">>, <<"-","1">>) }

\* The marker sequences of the model: what transformMarkers makes of the raw
\* sequences.
MarkerSeqs == {transformMarkers(JsArray(raw)).value : raw \in RawMarkerSeqs}

\* The strings extractVideoId is tried on: identifiers as they are and with
\* white space around them, strings one character short or long, strings
\* with a character outside the class, and URLs whose identifier part is
\* exact, too long, too short or holds a character outside the class.
TEN_CHARS == SubSeq(VALID_ID, 1, VIDEO_ID_LENGTH - 1)
BAD_CHARS == <<"a","b","c","!","2","3","X","Y","Z","_","-">>

StringPool ==
  { VALID_ID, PADDED_ID, WATCH_URL, BOGUS, <<>>, <<" ", "\n">>,
    TEN_CHARS, VALID_ID \o <<"x">>, BAD_CHARS,
    <<"a","b","c"," ","2","3","X","Y","Z","_","-">>,
    UrlPrefixes[1] \o VALID_ID \o <<"&","t","=","1">>,
    <<" ">> \o UrlPrefixes[2] \o VALID_ID \o <<"x","y">>,
    UrlPrefixes[3] \o TEN_CHARS,
    UrlPrefixes[4] \o BAD_CHARS,
    UrlPrefixes[5] \o TEN_CHARS \o <<"/">> \o UrlPrefixes[3] \o VALID_ID,
    <<"w","w","w",".">> \o UrlPrefixes[1] \o TEN_CHARS \o <<"?">> }

\* The counts getTopSegments is called with: none, and whole numbers below,
\* within and above the number of markers.
CountPool == {JsUndefined} \cup {JsNumber(n) : n \in -1..(MaxMarkers + 1)}

\* The arguments each function is called with.
ArgumentPool ==
  CASE api = "extractInitialDataJson" -> {<<x>> : x \in HtmlPool}
    [] api = "extractVideoId" -> {<<x>> : x \in StringPool}
    [] api = "getTopSegments" ->
         {<<[markers |-> markers], count>> : markers \in MarkerSeqs, count \in CountPool}
    [] api = "findMarkersListData" -> {<<x>> : x \in TreePool}
    [] api = "transformMarkers" -> {<<JsArray(raw)>> : raw \in RawMarkerSeqs}
    [] api = "transformTimedMarkerDecorations" ->
         {<<JsArray(raw)>> : raw \in SeqsUpTo(RawDecorationPool, MaxMarkers)}
    [] api \in {"findPeakSegment", "calculateAverageIntensity"} ->
         {<<markers>> : markers \in MarkerSeqs}
    [] api = "estimateVideoDuration" ->
         {<<transformMarkers(JsArray(raw)).value, raw>> : raw \in RawMarkerSeqs}
         \cup {<<markers, <<>> >> : markers \in MarkerSeqs}
         \cup {<<<<>>, raw>> : raw \in RawMarkerSeqs}

InitParser ==
  /\ api \in {"extractVideoId", "getTopSegments",
              "extractInitialDataJson", "findMarkersListData", "transformMarkers",
              "transformTimedMarkerDecorations", "findPeakSegment",
              "calculateAverageIntensity", "estimateVideoDuration"}
  /\ traced = FALSE
  /\ inputs \in ArgumentPool
  /\ options = [retries |-> JsUndefined, concurrency |-> JsUndefined,
                retryDelay |-> JsUndefined, timeout |-> JsUndefined]
  /\ InitCommon

\* extractVideoId(input) is called.
CallExtractVideoId ==
  /\ api = "extractVideoId"
  /\ bpc = "start"
  /\ outcome' = extractVideoId(inputs[1])
  /\ bpc' = "done"
  /\ UNCHANGED <<api, traced, inputs, options, videoIds, results, windowStart, task>>

\* extractInitialDataJson(html) is called.
CallExtractInitialDataJson ==
  /\ api = "extractInitialDataJson"
  /\ bpc = "start"
  /\ outcome' = extractInitialDataJson(inputs[1])
  /\ bpc' = "done"
  /\ UNCHANGED <<api, traced, inputs, options, videoIds, results, windowStart, task>>

\* findMarkersListData(data) is called.
CallFindMarkersListData ==
  /\ api = "findMarkersListData"
  /\ bpc = "start"
  /\ outcome' = findMarkersListData(inputs[1])
  /\ bpc' = "done"
  /\ UNCHANGED <<api, traced, inputs, options, videoIds, results, windowStart, task>>

\* transformMarkers(rawMarkers) is called.
CallTransformMarkers ==
  /\ api = "transformMarkers"
  /\ bpc = "start"
  /\ outcome' = transformMarkers(inputs[1])
  /\ bpc' = "done"
  /\ UNCHANGED <<api, traced, inputs, options, videoIds, results, windowStart, task>>

\* transformTimedMarkerDecorations(rawDecorations) is called.
CallTransformTimedMarkerDecorations ==
  /\ api = "transformTimedMarkerDecorations"
  /\ bpc = "start"
  /\ outcome' = transformTimedMarkerDecorations(inputs[1])
  /\ bpc' = "done"
  /\ UNCHANGED <<api, traced, inputs, options, videoIds, results, windowStart, task>>

\* findPeakSegment(markers) is called.
CallFindPeakSegment ==
  /\ api = "findPeakSegment"
  /\ bpc = "start"
  /\ outcome' = Return(findPeakSegment(inputs[1]))
  /\ bpc' = "done"
  /\ UNCHANGED <<api, traced, inputs, options, videoIds, results, windowStart, task>>

\* calculateAverageIntensity(markers) is called.
CallCalculateAverageIntensity ==
  /\ api = "calculateAverageIntensity"
  /\ bpc = "start"
  /\ outcome' = Return(calculateAverageIntensity(inputs[1]))
  /\ bpc' = "done"
  /\ UNCHANGED <<api, traced, inputs, options, videoIds, results, windowStart, task>>

\* estimateVideoDuration(markers, rawMarkers) is called.
CallEstimateVideoDuration ==
  /\ api = "estimateVideoDuration"
  /\ bpc = "start"
  /\ outcome' = Return(estimateVideoDuration(inputs[1], inputs[2]))
  /\ bpc' = "done"
  /\ UNCHANGED <<api, traced, inputs, options, videoIds, results, windowStart, task>>

\* getTopSegments(data, count) is called.
CallGetTopSegments ==
  /\ api = "getTopSegments"
  /\ bpc = "start"
  /\ outcome' = Return(getTopSegments(inputs[1], inputs[2]).returned)
  /\ inputs' = <<getTopSegments(inputs[1], inputs[2]).data, inputs[2]>>
  /\ bpc' = "done"
  /\ UNCHANGED <<api, traced, options, videoIds, results, windowStart, task>>

NextParser ==
  \/ CallExtractVideoId
  \/ CallGetTopSegments
  \/ CallExtractInitialDataJson
  \/ CallFindMarkersListData
  \/ CallTransformMarkers
  \/ CallTransformTimedMarkerDecorations
  \/ CallFindPeakSegment
  \/ CallCalculateAverageIntensity
  \/ CallEstimateVideoDuration

SpecParser == InitParser /\ [][NextParser]_vars

\* ----------------------------------------------------------------- claims
\* An input that neither is an identifier nor holds a URL of a known shape.
Invalid(input) == ~isValidVideoId(Trim(input)) /\ MatchUrl(Trim(input)) = <<>>

BatchReturned == api = "batch" /\ bpc = "done" /\ outcome.kind = "return"

\* C1: when getMostReplayedBatch returns, the array has one slot per input,
\* every slot is assigned, and slot i holds the result for input i: the
\* validation error of input i when it is invalid, and otherwise what the
\* getMostReplayed call made for the identifier of input i ended with.
C1_IndexAligned ==
  BatchReturned =>
    /\ DOMAIN outcome.value = Items
    /\ \A i \in Items :
         LET slot == outcome.value[i]
         IN  /\ slot # JsUndefined
             /\ IF Invalid(inputs[i])
                THEN /\ slot.data = JsNull
                     /\ slot.error = extractVideoId(inputs[i]).value
                ELSE /\ task[i].pc = "settled"
                     /\ task[i].videoId = extractVideoId(inputs[i]).value
                     /\ slot.videoId = JsString(task[i].videoId)
                     /\ slot.data = (IF task[i].result.kind = "return"
                                     THEN task[i].result.value ELSE JsNull)
                     /\ (task[i].result.kind = "throw" /\ IsMostReplayedError(task[i].result.value)
                           => slot.error = task[i].result.value)
                     /\ (task[i].result.kind = "return" => slot.error = JsUndefined)

\* C1 witness: two valid inputs of one window, the first ended in a failure
\* after two calls, the second with data after one call.
C1_Witness ==
  /\ BatchReturned
  /\ Len(inputs) = 2
  /\ concurrencyOf(options) >= 2
  /\ ~Invalid(inputs[1]) /\ ~Invalid(inputs[2])
  /\ outcome.value[1].error # JsUndefined
  /\ Len(task[1].calls) = 2
  /\ outcome.value[2].data # JsNull
  /\ Len(task[2].calls) = 1

\* C2: with concurrency N >= 1, never more than N transport calls are
\* outstanding.
C2_BoundedConcurrency ==
  (api = "batch" /\ concurrencyOf(options) >= 1) =>
    Cardinality({k \in Items : task[k].pc = "fetching"}) <= concurrencyOf(options)

\* C2 witness: concurrency 1 and two valid inputs; the first item is done and
\* the second has its second transport call outstanding.
C2_Witness ==
  /\ api = "batch"
  /\ concurrencyOf(options) = 1
  /\ Len(inputs) = 2
  /\ task[1].pc = "settled"
  /\ task[2].pc = "fetching"
  /\ task[2].attempt = 2

\* C3: whenever the getMostReplayed call of a validated identifier fails, its
\* slot has data = null and an error; a slot with data = null and no error
\* occurs only when the call returned null.
C3_FailureCaptured ==
  BatchReturned =>
    \A i \in Items :
      (~Invalid(inputs[i]) /\ task[i].pc = "settled") =>
        /\ task[i].result.kind = "throw" =>
             (outcome.value[i].data = JsNull /\ outcome.value[i].error # JsUndefined)
        /\ (outcome.value[i].data = JsNull /\ outcome.value[i].error = JsUndefined) =>
             task[i].result = Return(JsNull)

\* C4: getMostReplayedBatch never rejects.
C4_NeverRejects ==
  (api = "batch" /\ bpc = "done") => outcome.kind = "return"

\* C4 witness: a batch that returned although one item timed out and the
\* other failed with an error that is no MostReplayedError.
C4_Witness ==
  /\ BatchReturned
  /\ Len(inputs) = 2
  /\ task[1].pc = "settled" /\ task[1].result.kind = "throw"
  /\ task[1].result.value.code = TIMEOUT
  /\ task[2].pc = "settled" /\ task[2].result.kind = "throw"
  /\ ~IsMostReplayedError(task[2].result.value)

\* C6: an input that fails validation never gets a transport call, has its
\* slot filled with data = null and the InvalidVideoId error as soon as the
\* validation is over, and no transport call is issued before every input is
\* validated.
C6_InvalidNeverFetched ==
  api = "batch" =>
    /\ \A i \in Items :
         Invalid(inputs[i]) =>
           /\ task[i].calls = <<>>
           /\ bpc # "start" =>
                /\ results[i] # JsUndefined
                /\ results[i].data = JsNull
                /\ results[i].error # JsUndefined
                /\ results[i].error.code = INVALID_VIDEO_ID
    /\ (\E i \in Items : task[i].calls # <<>>) =>
         /\ DOMAIN videoIds = Items
         /\ \A i \in Items : (videoIds[i].videoId = JsNull) = Invalid(inputs[i])

\* C6 witness: an invalid input before a valid one whose transport call was
\* issued.
C6_Witness ==
  /\ BatchReturned
  /\ Len(inputs) = 2
  /\ Invalid(inputs[1])
  /\ outcome.value[1].error.code = INVALID_VIDEO_ID
  /\ task[2].calls # <<>>

\* C7: every slot carries as its videoId the original input at that index.
C7_KeyIsOriginalInput ==
  BatchReturned =>
    \A i \in Items :
      outcome.value[i] # JsUndefined => outcome.value[i].videoId = JsString(inputs[i])

\* What getMostReplayed ends with for a valid identifier, computed from the
\* history of its own transport calls alone, from attempt n on.
RECURSIVE Replay(_, _, _)
Replay(calls, n, lastError) ==
  IF n > maxRetriesOf(options)
  THEN Throw(Coalesce(lastError, MostReplayedError(FETCH_FAILED, "Request failed", <<>>)))
  ELSE IF n > Len(calls) THEN Throw(JsUndefined)
  ELSE LET entry == calls[n]
           step == IF entry.call.t = "response"
                   THEN OnResponse(entry.call, n, maxRetriesOf(options))
                   ELSE OnCatch(entry.call, n, maxRetriesOf(options), timeoutOf(options))
           caught == OnCatch(entry.body, n, maxRetriesOf(options), timeoutOf(options))
       IN  CASE step.next = "throw" -> Throw(step.error)
             [] step.next = "retry" -> Replay(calls, n + 1, step.error)
             [] step.next = "read" ->
                  IF entry.body.t = "string" THEN ParsePage(entry.body.s)
                  ELSE IF caught.next = "throw" THEN Throw(caught.error)
                  ELSE Replay(calls, n + 1, caught.error)

\* The slot of input i as a function of input i and of its own history.
OwnSlot(i) ==
  IF Invalid(inputs[i])
  THEN [data |-> JsNull, error |-> extractVideoId(inputs[i]).value]
  ELSE LET r == Replay(task[i].calls, 1, JsUndefined)
       IN  [data |-> IF r.kind = "return" THEN r.value ELSE JsNull,
            error |-> IF r.kind = "throw" /\ IsMostReplayedError(r.value)
                      THEN r.value ELSE JsUndefined]

\* C5: the slot of an item is a function of its own input and of what its
\* own transport calls yielded; what the other items of the batch did (failed,
\* timed out, were invalid) has no part in it.
C5_OwnOutcomesOnly ==
  (BatchReturned /\ traced) =>
    \A i \in Items :
      /\ outcome.value[i] # JsUndefined
      /\ outcome.value[i].data = OwnSlot(i).data
      /\ outcome.value[i].error = OwnSlot(i).error

\* C5 witness: two valid inputs share a window; the first failed after a
\* retry, the second has its data.
C5_Witness ==
  /\ BatchReturned /\ traced
  /\ Len(inputs) = 2
  /\ concurrencyOf(options) = 2
  /\ ~Invalid(inputs[1]) /\ ~Invalid(inputs[2])
  /\ Len(task[1].calls) = 2
  /\ outcome.value[1].error # JsUndefined
  /\ outcome.value[1].error.code = FETCH_FAILED
  /\ Len(task[2].calls) = 1
  /\ outcome.value[2].data # JsNull
  /\ outcome.value[2].error = JsUndefined

\* The attempt of this history entry failed in a way the loop retries: a
\* status of 500 or more or 429, or a rejection of the transport call or of
\* the body read that is no abort.
FailedRetryably(entry) ==
  \/ /\ entry.call.t = "response"
     /\ ~entry.call.ok
     /\ (entry.call.status >= 500 \/ entry.call.status = 429)
  \/ /\ entry.call.t = "error"
     /\ entry.call.name \notin {"AbortError", "MostReplayedError"}
  \/ /\ entry.call.t = "response"
     /\ entry.call.ok
     /\ entry.body.t = "error"
     /\ entry.body.name \notin {"AbortError", "MostReplayedError"}

\* C8: a non-2xx response at attempt n is followed by another attempt exactly
\* when its status is 500 or more or 429 and n is below the retries option;
\* otherwise the call fails at once with the FetchFailed error of that status.
C8_StatusRetryPolicy ==
  api = "single" =>
    \A n \in 1..Len(task[1].calls) :
      LET c == task[1].calls[n].call
      IN  (c.t = "response" /\ ~c.ok) =>
            IF (c.status >= 500 \/ c.status = 429) /\ n < maxRetriesOf(options)
            THEN \/ task[1].pc = "sleeping" /\ Len(task[1].calls) = n
                 \/ Len(task[1].calls) > n
            ELSE /\ task[1].pc = "settled"
                 /\ Len(task[1].calls) = n
                 /\ task[1].result =
                      Throw(MostReplayedError(FETCH_FAILED, "HTTP ",
                                              <<ToString(c.status), c.statusText>>))

\* C8 witness: with retries 2 a 429 was retried and the 404 that followed
\* ended the call.
C8_Witness ==
  /\ api = "single"
  /\ maxRetriesOf(options) = 2
  /\ Len(task[1].calls) = 2
  /\ task[1].calls[1].call.t = "response" /\ task[1].calls[1].call.status = 429
  /\ task[1].calls[2].call.t = "response" /\ task[1].calls[2].call.status = 404
  /\ task[1].pc = "settled"

\* C9: no more transport calls than the retries option; with the default of 1
\* exactly one call; and when every attempt fails retryably the call fails
\* after exactly as many calls as the retries option.
C9_AttemptBudget ==
  api = "single" =>
    /\ Len(task[1].calls) <= maxRetriesOf(options)
    /\ (options.retries = JsUndefined /\ task[1].pc = "settled" /\ ~Invalid(inputs[1]))
         => Len(task[1].calls) = 1
    /\ ( /\ task[1].pc = "settled"
         /\ ~Invalid(inputs[1])
         /\ \A n \in 1..Len(task[1].calls) : FailedRetryably(task[1].calls[n]) )
         => /\ Len(task[1].calls) = maxRetriesOf(options)
            /\ task[1].result.kind = "throw"

\* C9 witness: with retries 2 a 500 and then a rejection of the transport,
\* after which the call has failed.
C9_Witness ==
  /\ api = "single"
  /\ maxRetriesOf(options) = 2
  /\ task[1].pc = "settled"
  /\ Len(task[1].calls) = 2
  /\ task[1].calls[1].call.t = "response" /\ task[1].calls[1].call.status = 500
  /\ task[1].calls[2].call.t = "error"
  /\ task[1].result.kind = "throw"
  /\ task[1].result.value.code = FETCH_FAILED

\* C10 as stated: when attempt k gets a 2xx response after k - 1 retryable
\* failures, the fetch succeeds with the body of that response after exactly
\* k calls.
C10_SuccessOnAttemptK ==
  api = "single" =>
    \A k \in 1..Len(task[1].calls) :
      LET c == task[1].calls[k].call
      IN  (c.t = "response" /\ c.ok) =>
            \/ task[1].pc = "reading" /\ Len(task[1].calls) = k
            \/ /\ task[1].pc = "settled"
               /\ Len(task[1].calls) = k
               /\ task[1].result = ParsePage(c.body)

\* C10 amended: when attempt k gets a 2xx response after k - 1 retryable
\* failures and the body of that response is read to its end, the fetch
\* succeeds with that body after exactly k calls, and no earlier failure is
\* surfaced.
C10_SuccessOnAttemptKRead ==
  api = "single" =>
    \A k \in 1..Len(task[1].calls) :
      LET c == task[1].calls[k].call
      IN  (c.t = "response" /\ c.ok /\ task[1].calls[k].body.t = "string") =>
            /\ \A j \in 1..(k - 1) : FailedRetryably(task[1].calls[j])
            /\ task[1].pc = "settled"
            /\ Len(task[1].calls) = k
            /\ task[1].calls[k].body = JsString(c.body)
            /\ task[1].result = ParsePage(c.body)

\* C10 witness: with retries 2 a 500 and then a 200 whose page has the
\* heatmap, and the call returned its data.
C10_Witness ==
  /\ api = "single"
  /\ maxRetriesOf(options) = 2
  /\ Len(task[1].calls) = 2
  /\ task[1].calls[1].call.t = "response" /\ task[1].calls[1].call.status = 500
  /\ task[1].calls[2].call.t = "response" /\ task[1].calls[2].call.ok
  /\ task[1].pc = "settled"
  /\ task[1].result.kind = "return"
  /\ task[1].result.value # JsNull

\* What this history entry was rejected with: the rejection of the transport
\* call, or that of the read of the body; JsUndefined when there is none.
RejectionOf(entry) ==
  IF entry.call.t = "error" THEN entry.call
  ELSE IF entry.call.t = "response" /\ entry.body.t = "error" THEN entry.body
  ELSE JsUndefined

NamedAbort(e) == e.t = "error" /\ e.name = "AbortError"

FailedWith(code) ==
  /\ task[1].pc = "settled"
  /\ task[1].result.kind = "throw"
  /\ task[1].result.value.t = "error"
  /\ task[1].result.value.code = code

\* C11: an attempt that its timeout aborted is followed by another attempt
\* while attempts remain, and TimedOut is surfaced only when the last attempt
\* of the budget timed out.
C11_TimeoutRetried ==
  api = "single" =>
    /\ \A n \in 1..Len(task[1].calls) :
         ( /\ task[1].calls[n].fired
           /\ NamedAbort(RejectionOf(task[1].calls[n]))
           /\ n < maxRetriesOf(options) )
         => \/ task[1].pc = "sleeping" /\ Len(task[1].calls) = n
            \/ Len(task[1].calls) > n
    /\ (FailedWith(TIMEOUT) /\ task[1].calls[Len(task[1].calls)].fired)
         => Len(task[1].calls) = maxRetriesOf(options)

\* The error fetchVideoPage makes of the failure of this history entry.
SurfacedFor(entry) ==
  IF entry.call.t = "response" /\ ~entry.call.ok
  THEN [code |-> FETCH_FAILED, message |-> "HTTP ",
        detail |-> <<ToString(entry.call.status), entry.call.statusText>>]
  ELSE IF NamedAbort(RejectionOf(entry))
  THEN [code |-> TIMEOUT, message |-> "Request timed out after ",
        detail |-> <<ToString(timeoutOf(options)), "ms">>]
  ELSE [code |-> FETCH_FAILED, message |-> "Failed to fetch video page: ",
        detail |-> <<RejectionOf(entry).message>>]

\* C12: when the budget is used up by a failing last attempt, the error that
\* is surfaced is made of the status or of the exception of that last attempt.
C12_LastFailureSurfaced ==
  api = "single" =>
    LET n == Len(task[1].calls)
    IN  ( /\ task[1].pc = "settled"
          /\ n >= 1
          /\ n = maxRetriesOf(options)
          /\ \/ task[1].calls[n].call.t = "response" /\ ~task[1].calls[n].call.ok
             \/ RejectionOf(task[1].calls[n]) # JsUndefined )
        => /\ task[1].result.kind = "throw"
           /\ IsMostReplayedError(task[1].result.value)
           /\ task[1].result.value.code = SurfacedFor(task[1].calls[n]).code
           /\ task[1].result.value.message = SurfacedFor(task[1].calls[n]).message
           /\ task[1].result.value.detail = SurfacedFor(task[1].calls[n]).detail

\* C12 witness: three attempts that each failed differently, a rejection, a
\* 500 and at last a 429, and the 429 is what the call failed with.
C12_Witness ==
  /\ api = "single"
  /\ maxRetriesOf(options) = 3
  /\ Len(task[1].calls) = 3
  /\ task[1].calls[1].call.t = "error"
  /\ task[1].calls[2].call.t = "response" /\ task[1].calls[2].call.status = 500
  /\ task[1].calls[3].call.t = "response" /\ task[1].calls[3].call.status = 429
  /\ FailedWith(FETCH_FAILED)
  /\ task[1].result.value.detail = <<"429", "Too Many Requests">>

\* C13: the delay waited after failed attempt n, before retry n, is
\* retryDelay * n; a further attempt starts only out of such a delay, the
\* first attempt starts without one, and the fetch never ends out of a delay.
C13_LinearBackoff ==
  [][ api = "single" =>
        /\ task'[1].pc = "sleeping" =>
             /\ task[1].pc \in {"fetching", "reading"}
             /\ Len(task'[1].calls) = Len(task[1].calls)
             /\ Len(task'[1].calls) < maxRetriesOf(options)
             /\ task'[1].sleepMs =
                  (IF options.retryDelay = JsUndefined THEN DEFAULT_RETRY_DELAY
                   ELSE options.retryDelay.n) * Len(task'[1].calls)
        /\ task'[1].pc # "sleeping" => task'[1].sleepMs = 0
        /\ Len(task'[1].calls) > Len(task[1].calls) =>
             /\ Len(task'[1].calls) = Len(task[1].calls) + 1
             /\ task[1].pc = (IF Len(task[1].calls) = 0 THEN "idle" ELSE "sleeping")
        /\ task'[1].pc = "settled" => task[1].pc # "sleeping"
    ]_vars

\* C13 witness: the delay after the second failed attempt is twice the
\* retryDelay option.
C13_Witness ==
  /\ api = "single"
  /\ options.retryDelay = JsNumber(SHORT_DELAY)
  /\ task[1].pc = "sleeping"
  /\ Len(task[1].calls) = 2
  /\ task[1].sleepMs = 2 * SHORT_DELAY

\* C14: an attempt that is rejected with the abort its fired timeout caused
\* ends the fetch with TimedOut; a rejection that is no abort never ends it
\* with TimedOut, and ends it with FetchFailed when it is not retried.
C14_AbortIsTimedOut ==
  api = "single" =>
    \A n \in 1..Len(task[1].calls) :
      LET entry == task[1].calls[n]
          e == RejectionOf(entry)
      IN  /\ (entry.fired /\ NamedAbort(e)) =>
               /\ Len(task[1].calls) = n
               /\ FailedWith(TIMEOUT)
          /\ (e # JsUndefined /\ ~NamedAbort(e)) =>
               \/ task[1].pc = "sleeping" /\ Len(task[1].calls) = n
               \/ Len(task[1].calls) > n
               \/ /\ Len(task[1].calls) = n
                  /\ FailedWith(FETCH_FAILED)

\* C14 witness: the timer of the second attempt fired, the transport call
\* was rejected with the abort, and the call failed with TimedOut.
C14_Witness ==
  /\ api = "single"
  /\ Len(task[1].calls) = 2
  /\ task[1].calls[2].fired
  /\ NamedAbort(task[1].calls[2].call)
  /\ FailedWith(TIMEOUT)

\* C15 as stated: a fetch ends with TimedOut only if the timer of its last
\* attempt fired.
C15_TimedOutOnlyIfFired ==
  (api = "single" /\ FailedWith(TIMEOUT)) =>
    /\ Len(task[1].calls) >= 1
    /\ task[1].calls[Len(task[1].calls)].fired

\* C15 amended: a fetch ends with TimedOut only if the transport call or the
\* body read of its last attempt was rejected with an error named AbortError
\* (which is what the timer of the attempt causes when it fires).
C15_TimedOutOnlyOnAbortError ==
  (api = "single" /\ FailedWith(TIMEOUT)) =>
    /\ Len(task[1].calls) >= 1
    /\ NamedAbort(RejectionOf(task[1].calls[Len(task[1].calls)]))

\* C15 witness: the timer fired while the body of a 200 was read, the read was
\* rejected with the abort, and the call failed with TimedOut.
C15_Witness ==
  /\ api = "single"
  /\ FailedWith(TIMEOUT)
  /\ Len(task[1].calls) = 1
  /\ task[1].calls[1].fired
  /\ task[1].calls[1].call.t = "response"
  /\ NamedAbort(task[1].calls[1].body)

\* C17: whatever getMostReplayed throws is a MostReplayedError of kind
\* InvalidVideoId, FetchFailed, ParseFailed or TimedOut.
C17_OnlyTypedErrors ==
  (api = "single" /\ task[1].pc = "settled" /\ task[1].result.kind = "throw") =>
    /\ IsMostReplayedError(task[1].result.value)
    /\ task[1].result.value.code \in {INVALID_VIDEO_ID, FETCH_FAILED, PARSE_FAILED, TIMEOUT}

\* Whether no mutation of this tree holds a markers list that qualifies (one
\* with a markersDecoration).
NoQualifyingList(data) ==
  LET mutations == Get(Get(Get(data, "frameworkUpdates"), "entityBatchUpdate"), "mutations")
  IN  \/ mutations.t # "array"
      \/ \A k \in 1..Len(mutations.e) :
           ~Truthy(Get(Get(Get(Get(mutations.e[k], "payload"), "macroMarkersListEntity"),
                           "markersList"), "markersDecoration"))

\* Whether the embedded JSON of this page is found and parses.
PageParses(html) ==
  /\ extractInitialDataJson(html).kind = "return"
  /\ parseInitialData(extractInitialDataJson(html).value).kind = "return"

\* C16: when the page an item fetched parses and no mutation of it holds a
\* qualifying markers list, the getMostReplayed call of the item returns null,
\* and the batch records the item with data = null and no error.
C16_NoListIsNull ==
  (api = "batch" /\ traced) =>
    \A i \in Items :
      LET n == Len(task[i].calls)
      IN  ( /\ task[i].pc = "settled"
            /\ n >= 1
            /\ task[i].calls[n].call.t = "response"
            /\ task[i].calls[n].call.ok
            /\ task[i].calls[n].body.t = "string"
            /\ PageParses(task[i].calls[n].body.s)
            /\ NoQualifyingList(parseInitialData(
                   extractInitialDataJson(task[i].calls[n].body.s).value).value) )
          => /\ task[i].result = Return(JsNull)
             /\ BatchReturned =>
                  /\ outcome.value[i].data = JsNull
                  /\ outcome.value[i].error = JsUndefined

\* The positions of a piece in a text, and the first of them after a position.
PositionsOf(html, piece) == {k \in 1..Len(html) : html[k] = piece}

FirstAfter(positions, at) ==
  CHOOSE k \in positions : k > at /\ \A j \in positions : j > at => k <= j

ExtractDone == api = "extractInitialDataJson" /\ bpc = "done"

\* C18: what extractInitialDataJson returns is the text right after the first
\* marker up to the first terminator after that marker, and it is the same
\* with everything before the first marker cut off.
C18_ExactSubstring ==
  (ExtractDone /\ outcome.kind = "return") =>
    LET html == inputs[1]
        markers == PositionsOf(html, MARKER)
        terminators == PositionsOf(html, TERMINATOR)
    IN  /\ markers # {}
        /\ \E e \in terminators : e > FirstAfter(markers, 0)
        /\ outcome.value = SubSeq(html, FirstAfter(markers, 0) + 1,
                                  FirstAfter(terminators, FirstAfter(markers, 0)) - 1)
        /\ outcome = extractInitialDataJson(SubSeq(html, FirstAfter(markers, 0), Len(html)))

\* C18 witness: a terminator, the marker, one piece of text and a terminator;
\* the piece of text is what is returned.
C18_Witness ==
  /\ ExtractDone
  /\ Len(inputs[1]) = 4
  /\ inputs[1][1] = TERMINATOR
  /\ inputs[1][2] = MARKER
  /\ inputs[1][3] \notin {MARKER, TERMINATOR}
  /\ inputs[1][4] = TERMINATOR
  /\ outcome = Return(<<inputs[1][3]>>)

\* C19: extractInitialDataJson fails, with ParseFailed, exactly when the text
\* has no marker or no terminator after its first marker; otherwise it
\* returns.
C19_ParseFailedIff ==
  ExtractDone =>
    LET html == inputs[1]
        markers == PositionsOf(html, MARKER)
        terminators == PositionsOf(html, TERMINATOR)
        unbounded == markers = {} \/ ~(\E e \in terminators : e > FirstAfter(markers, 0))
    IN  IF unbounded
        THEN /\ outcome.kind = "throw"
             /\ IsMostReplayedError(outcome.value)
             /\ outcome.value.code = PARSE_FAILED
        ELSE outcome.kind = "return"

\* C19 witness: the only terminator of the text is before the marker, and the
\* call failed with ParseFailed.
C19_Witness ==
  /\ ExtractDone
  /\ Len(inputs[1]) = 3
  /\ inputs[1][1] = TERMINATOR
  /\ inputs[1][2] = MARKER
  /\ inputs[1][3] \notin {MARKER, TERMINATOR}
  /\ outcome.kind = "throw"
  /\ outcome.value.code = PARSE_FAILED

\* The markers list of a mutation, and whether it has a markersDecoration key.
ListOf(mutation) ==
  Get(Get(Get(mutation, "payload"), "macroMarkersListEntity"), "markersList")

HasDecorationKey(mutation) ==
  ListOf(mutation).t = "object" /\ "markersDecoration" \in DOMAIN ListOf(mutation).props

\* C20: findMarkersListData returns the markers list of the first mutation
\* whose markers list has a markersDecoration key, and 'not found' (null)
\* exactly when no mutation has one.
C20_FirstQualifying ==
  (api = "findMarkersListData" /\ bpc = "done") =>
    LET mutations == Get(Get(Get(inputs[1], "frameworkUpdates"), "entityBatchUpdate"),
                         "mutations")
        hits == IF mutations.t = "array"
                THEN {k \in 1..Len(mutations.e) : HasDecorationKey(mutations.e[k])}
                ELSE {}
    IN  mutations.t = "array" =>
          IF hits = {} THEN outcome = Return(JsNull)
          ELSE outcome = Return(ListOf(mutations.e[FirstAfter(hits, 0)]))


\* The mutations value of a tree: what the path frameworkUpdates,
\* entityBatchUpdate, mutations leads to, undefined when a value on the way is
\* missing or null.
MutationsOf(data) ==
  OptGet(OptGet(OptGet(data, "frameworkUpdates"), "entityBatchUpdate"), "mutations")

\* C21: findMarkersListData never raises, whatever the tree: it returns, and
\* it returns 'not found' (null) when the mutations value is missing, null,
\* empty or not a sequence, or when every mutation is null or lacks a value on
\* the way to its markers list.
C21_NeverRaises ==
  (api = "findMarkersListData" /\ bpc = "done") =>
    /\ outcome.kind = "return"
    /\ LET mutations == MutationsOf(inputs[1])
       IN  \/ mutations.t # "array"
           \/ \A k \in 1..Len(mutations.e) :
                OptGet(OptGet(OptGet(mutations.e[k], "payload"), "macroMarkersListEntity"),
                       "markersList").t \in {"undefined", "null"}
           => outcome = Return(JsNull)


TransformMarkersDone == api = "transformMarkers" /\ bpc = "done"

\* What transformMarkers makes of each entry of a raw sequence on its own, in
\* the order of the raw sequence.
RECURSIVE EntryWise(_)
EntryWise(raw) ==
  IF raw = <<>> THEN <<>>
  ELSE EntryWise(SubSeq(raw, 1, Len(raw) - 1))
       \o transformMarkers(JsArray(<<raw[Len(raw)]>>)).value

\* C22: the output of transformMarkers is sorted ascending by startMillis (no
\* marker starts before one that precedes it), and the markers that start at
\* the same time are in the order their entries had in the raw sequence.
C22_SortedStable ==
  TransformMarkersDone =>
    /\ outcome.kind = "return"
    /\ LET out == outcome.value
           each == EntryWise(inputs[1].e)
       IN  /\ \A i, j \in 1..Len(out) :
                 i < j => ~Greater(out[i].startMillis, out[j].startMillis)
           /\ \A k \in 1..Len(out) :
                 SelectSeq(out, LAMBDA m : m.startMillis = out[k].startMillis)
                   = SelectSeq(each, LAMBDA m : m.startMillis = out[k].startMillis)


Has(entry, k) == entry.t = "object" /\ k \in DOMAIN entry.props

\* How often x occurs in seq.
Count(seq, x) == Cardinality({k \in 1..Len(seq) : seq[k] = x})

SameElements(p, q) ==
  /\ Len(p) = Len(q)
  /\ \A k \in 1..Len(p) : Count(p, p[k]) = Count(q, p[k])

\* The raw entries that have a start time, in the order of the raw sequence.
WithStart(raw) == SelectSeq(raw, LAMBDA entry : Has(entry, "startMillis"))

\* The marker the claim describes for a raw entry that has a start: the
\* parse of its start and of its duration, duration 0 when the entry has no
\* duration, intensity 0 when it has none.
MarkerAsParsed(entry) ==
  [startMillis |-> ParseInt(entry.props.startMillis),
   durationMillis |->
     IF Has(entry, "durationMillis") THEN ParseInt(entry.props.durationMillis)
     ELSE JsNumber(0),
   intensityScoreNormalized |->
     IF Has(entry, "intensityScoreNormalized") THEN entry.props.intensityScoreNormalized
     ELSE JsNumber(0)]

\* The same, with duration 0 also when the duration is the empty string.
MarkerAsParsedOrEmpty(entry) ==
  IF Has(entry, "durationMillis") /\ entry.props.durationMillis = JsString(<<>>)
  THEN [MarkerAsParsed(entry) EXCEPT !.durationMillis = JsNumber(0)]
  ELSE MarkerAsParsed(entry)

NonNegativeInteger(v) == v.t = "number" /\ ~v.nan /\ v.n >= 0

\* C24: every marker transformMarkers produces from raw entries whose start
\* and duration are strings has a startMillis and a durationMillis that are
\* non-negative integers.
C24_NonNegativeIntegers ==
  (TransformMarkersDone /\ outcome.kind = "return") =>
    \A k \in 1..Len(outcome.value) :
      /\ NonNegativeInteger(outcome.value[k].startMillis)
      /\ NonNegativeInteger(outcome.value[k].durationMillis)


FindPeakDone == api = "findPeakSegment" /\ bpc = "done"

\* The positions of the markers of greatest intensity.
MostIntense(markers) ==
  {k \in 1..Len(markers) :
     \A j \in 1..Len(markers) :
       markers[k].intensityScoreNormalized.n >= markers[j].intensityScoreNormalized.n}

SortedByStart(markers) ==
  \A i, j \in 1..Len(markers) :
    i < j => /\ ~markers[i].startMillis.nan /\ ~markers[j].startMillis.nan
             /\ markers[i].startMillis.n <= markers[j].startMillis.n

\* C25: findPeakSegment returns null for an empty sequence; otherwise it
\* returns a marker of the sequence whose intensity is at least every
\* marker's, the first in sequence order of those of greatest intensity, which
\* on a sequence sorted by start is one that starts no later than any of them.
C25_FirstOfTheMostIntense ==
  FindPeakDone =>
    LET markers == inputs[1] IN
    /\ outcome.kind = "return"
    /\ Len(markers) = 0 => outcome.value = JsNull
    /\ Len(markers) > 0 =>
         /\ \E k \in 1..Len(markers) : outcome.value = markers[k]
         /\ \A k \in 1..Len(markers) :
              outcome.value.intensityScoreNormalized.n >= markers[k].intensityScoreNormalized.n
         /\ outcome.value = markers[FirstAfter(MostIntense(markers), 0)]
         /\ SortedByStart(markers) =>
              \A k \in MostIntense(markers) :
                outcome.value.startMillis.n <= markers[k].startMillis.n

\* Two different markers of a sorted sequence share the greatest intensity, a
\* less intense one lies between them, and the earlier one is returned.
C25_Witness ==
  /\ FindPeakDone
  /\ Len(inputs[1]) = 3
  /\ SortedByStart(inputs[1])
  /\ MostIntense(inputs[1]) = {1, 3}
  /\ inputs[1][1] # inputs[1][3]
  /\ outcome = Return(inputs[1][1])


AverageDone == api = "calculateAverageIntensity" /\ bpc = "done"

\* C26: calculateAverageIntensity returns 0 for an empty sequence; for a
\* non-empty one what it returns lies between the least and the greatest
\* intensity of the sequence.
C26_MeanWithinRange ==
  AverageDone =>
    LET markers == inputs[1] IN
    /\ outcome.kind = "return"
    /\ Len(markers) = 0 => outcome.value = JsNumber(0)
    /\ Len(markers) > 0 =>
         /\ \E k \in 1..Len(markers) :
              markers[k].intensityScoreNormalized.n <= outcome.value.n
         /\ \E k \in 1..Len(markers) :
              outcome.value.n <= markers[k].intensityScoreNormalized.n


EstimateDone == api = "estimateVideoDuration" /\ bpc = "done"

\* The parse of the duration of the last entry of a raw sequence, 0 when
\* there is no such field.
LastRawDuration(raw) ==
  IF raw # <<>> /\ Has(raw[Len(raw)], "durationMillis")
  THEN ParseInt(raw[Len(raw)].props.durationMillis)
  ELSE JsNumber(0)

\* The same, 0 also when the field is the empty string.
LastRawDurationOrEmpty(raw) ==
  IF raw # <<>> /\ Get(raw[Len(raw)], "durationMillis") = JsString(<<>>)
  THEN JsNumber(0)
  ELSE LastRawDuration(raw)

\* C27 (as stated): estimateVideoDuration returns 0 when the normalized
\* sequence is empty; otherwise the startMillis of the last normalized marker
\* plus the base-10 integer parse of the durationMillis of the last raw entry,
\* 0 when that field is missing, whichever entry the last marker came from.
C27_LastStartPlusLastRawDuration ==
  EstimateDone =>
    /\ outcome.kind = "return"
    /\ outcome.value =
         IF Len(inputs[1]) = 0 THEN JsNumber(0)
         ELSE Plus(inputs[1][Len(inputs[1])].startMillis, LastRawDuration(inputs[2]))

\* C27 (amended): the same, with 0 also when that field is the empty string.
C27_LastStartPlusLastRawDurationOrEmpty ==
  EstimateDone =>
    /\ outcome.kind = "return"
    /\ outcome.value =
         IF Len(inputs[1]) = 0 THEN JsNumber(0)
         ELSE Plus(inputs[1][Len(inputs[1])].startMillis, LastRawDurationOrEmpty(inputs[2]))

\* The last raw entry has no start, so the last marker came from another
\* entry, whose duration is not the one that is added.
C27_Witness ==
  /\ EstimateDone
  /\ Len(inputs[1]) > 0
  /\ inputs[1] = transformMarkers(JsArray(inputs[2])).value
  /\ ~Has(inputs[2][Len(inputs[2])], "startMillis")
  /\ LastRawDuration(inputs[2]) = JsNumber(2000)
  /\ inputs[1][Len(inputs[1])].startMillis = JsNumber(5000)
  /\ inputs[1][Len(inputs[1])].durationMillis = JsNumber(5000)
  /\ outcome = Return(JsNumber(7000))


\* getMostReplayed returned a result that is not null.
SingleReturnedData ==
  api = "single" /\ bpc = "done" /\ outcome.kind = "return" /\ outcome.value.t = "data"

\* The page the call read: the body of its last transport call.
PageRead == task[1].calls[Len(task[1].calls)].call.body

\* The markers list located in a page that parses.
LocatedList(html) ==
  findMarkersListData(parseInitialData(extractInitialDataJson(html).value).value).value

\* C28 (as stated): in every result of getMostReplayed videoDurationMillis is
\* the startMillis of the last marker of the result plus that same marker's
\* own duration.
C28_LastStartPlusOwnDuration ==
  SingleReturnedData =>
    LET markers == outcome.value.markers.e
    IN  outcome.value.videoDurationMillis =
          Plus(markers[Len(markers)].startMillis, markers[Len(markers)].durationMillis)

\* C28 (amended): in every result of getMostReplayed videoDurationMillis is
\* the startMillis of the last marker of the result plus the duration parsed
\* from the last entry of the raw sequence (0 when it has none or an empty
\* one); that is the last marker's own duration when the last raw entry is the
\* entry that marker came from.
C28_LastStartPlusLastRawDuration ==
  SingleReturnedData =>
    LET markers == outcome.value.markers.e
        last == markers[Len(markers)]
        raw == Get(LocatedList(PageRead), "markers").e
    IN  /\ outcome.value.videoDurationMillis =
             Plus(last.startMillis, LastRawDurationOrEmpty(raw))
        /\ ( /\ Has(raw[Len(raw)], "startMillis")
             /\ MarkerAsParsedOrEmpty(raw[Len(raw)]) = last )
           => outcome.value.videoDurationMillis = Plus(last.startMillis, last.durationMillis)

\* The page's last raw entry has no start and a duration of 2000; the last
\* marker starts at 5000 and lasts 5000; the result says 7000.
C28_Witness ==
  /\ SingleReturnedData
  /\ Len(Get(LocatedList(PageRead), "markers").e) = 3
  /\ ~Has(Get(LocatedList(PageRead), "markers").e[3], "startMillis")
  /\ Len(outcome.value.markers.e) = 2
  /\ outcome.value.markers.e[2].startMillis = JsNumber(5000)
  /\ outcome.value.markers.e[2].durationMillis = JsNumber(5000)
  /\ outcome.value.videoDurationMillis = JsNumber(7000)


\* The markers of a located list are an array whose entries all lack a start
\* time (the empty array is one).
NoStartedEntry(list) ==
  /\ Get(list, "markers").t = "array"
  /\ \A k \in 1..Len(Get(list, "markers").e) : ~Has(Get(list, "markers").e[k], "startMillis")

\* The call read a page that parses and in which a markers list is located.
ReadLocatedList ==
  /\ Len(task[1].calls) >= 1
  /\ task[1].calls[Len(task[1].calls)].body.t = "string"
  /\ PageParses(PageRead)
  /\ parseInitialData(extractInitialDataJson(PageRead).value).value # JsNull
  /\ LocatedList(PageRead) # JsNull

\* C29: a result of getMostReplayed that is not null holds at least one
\* marker, its peak is one of its markers, and its decorations are null or a
\* non-empty sequence; when the markers list located in the page is empty or
\* has no entry with a start time, the call returns null.
C29_CompleteOrNull ==
  (api = "single" /\ bpc = "done") =>
    /\ SingleReturnedData =>
         /\ Len(outcome.value.markers.e) >= 1
         /\ \E k \in 1..Len(outcome.value.markers.e) :
              outcome.value.peakSegment = outcome.value.markers.e[k]
         /\ \/ outcome.value.timedMarkerDecorations = JsNull
            \/ /\ outcome.value.timedMarkerDecorations.t = "array"
               /\ Len(outcome.value.timedMarkerDecorations.e) >= 1
    /\ (ReadLocatedList /\ NoStartedEntry(LocatedList(PageRead))) => outcome = Return(JsNull)

\* A result whose page had two markers and a single decoration without an end:
\* the result holds both markers, the second is its peak, and its decorations
\* are null.
C29_Witness ==
  /\ SingleReturnedData
  /\ Len(Get(Get(LocatedList(PageRead), "markersDecoration"), "timedMarkerDecorations").e) = 1
  /\ Len(outcome.value.markers.e) = 2
  /\ outcome.value.peakSegment = outcome.value.markers.e[2]
  /\ outcome.value.timedMarkerDecorations = JsNull


TransformDecorationsDone == api = "transformTimedMarkerDecorations" /\ bpc = "done"

\* The raw decorations that have both bounds, in the order of the raw
\* sequence.
WithBothBounds(raw) ==
  SelectSeq(raw, LAMBDA entry : /\ Has(entry, "visibleTimeRangeStartMillis")
                                /\ Has(entry, "visibleTimeRangeEndMillis"))

RangeAsParsed(entry) ==
  [visibleTimeRangeStartMillis |-> ParseInt(entry.props.visibleTimeRangeStartMillis),
   visibleTimeRangeEndMillis |-> ParseInt(entry.props.visibleTimeRangeEndMillis)]

\* C30: transformTimedMarkerDecorations outputs exactly the ranges of the raw
\* decorations that have both bounds, one for each, each bound parsed as a
\* base-10 integer, and the output is sorted ascending by the start bound (no
\* range starts before one that precedes it).
C30_OnePerBoundedEntrySorted ==
  TransformDecorationsDone =>
    /\ outcome.kind = "return"
    /\ LET kept == WithBothBounds(inputs[1].e)
           out == outcome.value
       IN  /\ SameElements(out, [k \in 1..Len(kept) |-> RangeAsParsed(kept[k])])
           /\ \A i, j \in 1..Len(out) :
                i < j => ~Greater(out[i].visibleTimeRangeStartMillis,
                                  out[j].visibleTimeRangeStartMillis)


\* C31: extractVideoId ends in one of two ways.  It returns a string of
\* exactly 11 characters, each a letter, a digit, '_' or '-', so that
\* isValidVideoId holds of it and extractVideoId applied to it returns it
\* unchanged; or it fails with InvalidVideoId.
ExtractVideoIdDone == api = "extractVideoId" /\ bpc = "done"

C31_IdentifierOrInvalid ==
  ExtractVideoIdDone =>
    \/ /\ outcome.kind = "return"
       /\ Len(outcome.value) = 11
       /\ \A k \in 1..Len(outcome.value) : outcome.value[k] \in IdChar
       /\ isValidVideoId(outcome.value)
       /\ extractVideoId(outcome.value) = Return(outcome.value)
    \/ /\ outcome.kind = "throw"
       /\ IsMostReplayedError(outcome.value)
       /\ outcome.value.code = INVALID_VIDEO_ID

\* An identifier has been taken out of a padded URL that goes on after it.
C31_Witness ==
  /\ ExtractVideoIdDone
  /\ outcome.kind = "return"
  /\ outcome.value # Trim(inputs[1])
  /\ inputs[1] = <<" ">> \o UrlPrefixes[2] \o VALID_ID \o <<"x","y">>


\* C32: getTopSegments(data, count) returns min(count, number of markers)
\* markers of data in non-increasing order of intensity, no marker left out
\* is more intense than one returned, and data.markers is after the call
\* what it was before.
GetTopDone == api = "getTopSegments" /\ bpc = "done"

AskedFor == IF inputs[2] = JsUndefined THEN DEFAULT_COUNT ELSE inputs[2].n

LeftOut(markers, returned) ==
  {markers[k] : k \in {j \in 1..Len(markers) : Count(markers, markers[j]) > Count(returned, markers[j])}}

WindowOf(n) == (n - 1) \div concurrencyOf(options)

InProgress(k) == task[k].pc \notin {"idle", "settled"}

C33_WindowAfterWindow ==
  (api = "batch" /\ concurrencyOf(options) >= 1) =>
    \A m, n \in 1..Len(validItems) :
      /\ (WindowOf(m) < WindowOf(n) /\ task[validItems[n]].calls # <<>>) =>
           task[validItems[m]].pc = "settled"
      /\ (InProgress(validItems[m]) /\ InProgress(validItems[n])) => WindowOf(m) = WindowOf(n)

\* C33 witness: windows of one item; the first item has ended after a retry
\* and a backoff delay, and the transport call of the second is outstanding.
C33_Witness ==
  /\ api = "batch"
  /\ concurrencyOf(options) = 1
  /\ Len(validItems) = 2
  /\ task[validItems[1]].pc = "settled"
  /\ Len(task[validItems[1]].calls) = 2
  /\ task[validItems[2]].pc = "fetching"


\* C34: within a single fetch at most one timeout timer is armed at any
\* instant, and it is the timer of the attempt in progress: none is armed
\* during a backoff delay or once the fetch has returned or failed, and the
\* signal of the attempt in progress is aborted only if the timer of that
\* very attempt has fired.
C34_OneTimerPerAttempt ==
  api = "single" =>
    \A k \in Items :
      /\ Cardinality(task[k].armed) <= 1
      /\ task[k].armed \subseteq {task[k].attempt}
      /\ task[k].pc \in {"idle", "sleeping", "settled"} => task[k].armed = {}
      /\ task[k].aborted =>
           /\ task[k].pc \in {"fetching", "reading"}
           /\ task[k].calls[task[k].attempt].fired

\* C34 witness: the first attempt has failed without its timer firing, the
\* backoff delay is over, and the second attempt is in progress with its own
\* timer armed.
C34_Witness ==
  /\ api = "single"
  /\ task[1].pc = "fetching"
  /\ task[1].attempt = 2
  /\ task[1].armed = {2}
  /\ ~task[1].calls[1].fired
  /\ ~task[1].aborted


\* C35: getMostReplayedBatch eventually returns, whatever the inputs and
\* whatever whole numbers `concurrency` and `retries` are, when every
\* transport call and every backoff delay comes to an end.
C35_EventuallyReturns == (api = "batch") ~> (bpc = "done")

\* With a concurrency of 1 or more the call does return.
C35_ReturnsWhenWindowsAdvance ==
  (api = "batch" /\ concurrencyOf(options) >= 1) ~> (bpc = "done")


\* C36: a single fetch with a valid identifier issues at least one transport
\* call before it fails, whatever the retry budget; it never reports
\* FetchFailed without having attempted the request.
C36_TriedBeforeFailed ==
  (api = "single" /\ ~Invalid(inputs[1]) /\ task[1].pc = "settled"
     /\ task[1].result.kind = "throw") =>
    task[1].calls # <<>>


\* C37: the stages of getMostReplayed run in order.  No transport call is
\* issued for an identifier that fails validation; a body is read only from a
\* 2xx response, and extraction and parsing run on such a body only; a call
\* that ends before any body was read ends with a validation failure or a
\* transport failure; and once a body was read and handed to the parser no
\* further transport call follows, so that a ParseFailed outcome is never
\* retried, whatever the retry budget.
BodyWasRead(entry) == entry.body.t = "string"

TransportFailures == {FETCH_FAILED, TIMEOUT}

C37_StagesInOrder ==
  api = "single" =>
    /\ Invalid(inputs[1]) => task[1].calls = <<>>
    /\ \A i \in 1..Len(task[1].calls) :
         /\ task[1].calls[i].body # JsUndefined =>
              (task[1].calls[i].call.t = "response" /\ task[1].calls[i].call.ok)
         /\ BodyWasRead(task[1].calls[i]) => i = Len(task[1].calls)
    /\ task[1].pc = "settled" =>
         IF task[1].calls # <<>> /\ BodyWasRead(task[1].calls[Len(task[1].calls)])
         THEN task[1].result = ParsePage(task[1].calls[Len(task[1].calls)].body.s)
         ELSE /\ task[1].result.kind = "throw"
              /\ IsMostReplayedError(task[1].result.value)
              /\ IF Invalid(inputs[1])
                 THEN task[1].result.value.code = INVALID_VIDEO_ID
                 ELSE task[1].result.value.code \in TransportFailures

\* C37 witness: the first response was a 2xx whose body could not be parsed;
\* the call has ended with ParseFailed after one transport call though
\* attempts were left.
C37_Witness ==
  /\ api = "single"
  /\ FailedWith(PARSE_FAILED)
  /\ maxRetriesOf(options) >= 2
  /\ Len(task[1].calls) = 1
  /\ task[1].calls[1].call.ok


\* C38: once a transport call of a single fetch has yielded a 2xx response
\* the fetch issues no further transport call, whatever happens while the
\* body is read.
C38_NoCallAfterSuccess ==
  api = "single" =>
    \A i \in 1..Len(task[1].calls) :
      (task[1].calls[i].call.t = "response" /\ task[1].calls[i].call.ok) =>
        i = Len(task[1].calls)

\* C38 as the code has it: once a transport call has yielded a 2xx response
\* another transport call follows only if the read of that body was rejected
\* with something that is not named AbortError while attempts remained.
C38_NoCallAfterSuccessRead ==
  api = "single" =>
    \A i \in 1..Len(task[1].calls) :
      (task[1].calls[i].call.t = "response" /\ task[1].calls[i].call.ok) =>
        \/ i = Len(task[1].calls)
        \/ /\ task[1].calls[i].body.t = "error"
           /\ ~NamedAbort(task[1].calls[i].body)
           /\ i < maxRetriesOf(options)

\* C38 witness: the first call yielded a 2xx response, the read of its body
\* was rejected, and a second transport call was issued.
C38_Witness ==
  /\ api = "single"
  /\ Len(task[1].calls) = 2
  /\ task[1].calls[1].call.t = "response"
  /\ task[1].calls[1].call.ok
  /\ task[1].calls[1].body.t = "error"


\* C39: getMostReplayedBatch runs the single-item pipeline exactly once for
\* each validated input, duplicates included: a pipeline that has been
\* started is never started again, each input with an identifier has had its
\* own pipeline, with its own transport calls, when the batch returns, and an
\* input that was refused has had none.  Every index of the result array is
\* assigned exactly once: a slot, once assigned, is not written again, the
\* results of a window go to slots not yet assigned, and no slot is
\* unassigned when the batch returns.
Assigned(res) == {k \in DOMAIN res : res[k] # JsUndefined}

C39_OncePerInput ==
  /\ [](BatchReturned =>
          \A k \in Items :
            /\ outcome.value[k] # JsUndefined
            /\ IF Invalid(inputs[k]) THEN task[k].pc = "idle"
               ELSE /\ task[k].pc = "settled"
                    /\ maxRetriesOf(options) >= 1 => task[k].calls # <<>>)
  /\ [][api = "batch" =>
          /\ \A k \in Items :
               /\ task[k].pc # "idle" =>
                    /\ task'[k].pc # "idle"
                    /\ Len(task'[k].calls) >= Len(task[k].calls)
               /\ task[k].pc = "settled" => task'[k] = task[k]
          /\ \A k \in Assigned(results) : results'[k] = results[k]
          /\ (bpc = "await" /\ bpc' = "launch") =>
               /\ Window \cap Assigned(results) = {}
               /\ Assigned(results') = Assigned(results) \cup Window]_vars

\* C39 witness: the same identifier twice; each had its own transport call,
\* the two calls were answered differently, and both slots are assigned.
C39_Witness ==
  /\ BatchReturned
  /\ Len(inputs) = 2
  /\ inputs[1] = inputs[2]
  /\ ~Invalid(inputs[1])
  /\ task[1].calls # <<>>
  /\ task[2].calls # <<>>
  /\ outcome.value[1].data # JsNull
  /\ outcome.value[2].data = JsNull


\* C40: no result of getMostReplayedBatch has both data and an error.  Every
\* result is one of three kinds: data (data present, error absent), no data
\* (data null, error absent), failed (data null, error present).
HasData(r) == r.data \notin {JsNull, JsUndefined}

HasError(r) == r.error # JsUndefined

C40_DataOrErrorNeverBoth ==
  api = "batch" =>
    \A k \in Assigned(results) :
      /\ ~(HasData(results[k]) /\ HasError(results[k]))
      /\ ~HasData(results[k]) => results[k].data = JsNull
      /\ HasError(results[k]) => IsMostReplayedError(results[k].error)

\* C40 witness: a batch has returned a result of each of two kinds for two
\* valid inputs: one with data and no error, one failed with an error and
\* null data.
C40_Witness ==
  /\ BatchReturned
  /\ Len(inputs) = 2
  /\ ~Invalid(inputs[1])
  /\ ~Invalid(inputs[2])
  /\ HasData(outcome.value[1])
  /\ ~HasError(outcome.value[1])
  /\ HasError(outcome.value[2])
  /\ outcome.value[2].data = JsNull

=============================================================================
